---- MODULE Spec2Model ----
(***************************************************************************)
(* Account ledger and entitlement state machine of the hosted chat server  *)
(* (src/endpoints/account.js, src/endpoints/admin.js), with registration    *)
(* by invite code (src/endpoints/users-public.js, src/oauth.js).            *)
(*                                                                         *)
(* Units.  Instants are counted in ticks of half a day, so MS_PER_DAY is   *)
(* two ticks and the check-in cooldown (24 h) is two ticks as well.  The   *)
(* server's local time zone is a fixed offset, taken as UTC: a local       *)
(* midnight is a multiple of MS_PER_DAY.  Point balances are counted in    *)
(* quarters of a point, so that amounts which are not multiples of 0.5     *)
(* exist and the rounding Math.round(x * 2) / 2 has something to round.    *)
(*                                                                         *)
(* Left out of the records: AccountState.createdAt and the codes' createdAt *)
(* (written once; the ledger's is read only by the `||` fallback of         *)
(* applyDailyCosts, which a ledger created by getOrInitState never takes,   *)
(* the codes' only to sort listings), the fields of the identity record     *)
(* user:<handle> (only its presence is kept), and the users' content        *)
(* directories (an external collaborator).                                  *)
(***************************************************************************)
EXTENDS Integers, FiniteSets, Sequences, TLC

VARIABLES
    now,        \* Date.now(), in ticks
    accounts,   \* storage key account:<handle>  -> AccountState or NoState
    users,      \* handles whose identity record user:<handle> is stored
    codes,      \* storage key redeem:<CODE>     -> RedeemCode or NoCode
    invites,    \* storage key invite:<CODE>     -> InviteCode or NoCode
    registrationEnabled,    \* storage key system:config, its only field
    resp,       \* the response of the latest request, until the clock moves
    base,       \* history: per handle, the balance and cost high-water mark
                \* left by the latest write that was not a daily cost
    recording,  \* whether this run records resp and base at all
    disabled,   \* handles whose identity record has enabled = false
    faulty,     \* whether, in this run, the removals of a purge can fail
    inflight    \* per request slot, a redeem request under way: where it is
                \* in the handler and what it holds in memory

vars == <<now, accounts, users, codes, invites, registrationEnabled, resp, base,
          recording, disabled, faulty, inflight>>

-----------------------------------------------------------------------------
(* Program constants *)

MS_PER_DAY == 2
COOLDOWN_MS == 2
PURGE_DAYS == 30
INITIAL_POINTS == 20
CHECKIN_POINTS == 5
ACTIVATION_FEE == 1
MAX_REDEEM_ATTEMPTS == 10
MAX_INVITE_ATTEMPTS == 50
LEADERBOARD_SIZE == 50
MAX_REDEEM_COUNT == 100
MAX_INVITE_COUNT == 200
MAX_EXPIRES_DAYS == 365
MIN_HANDLE_LENGTH == 3
MAX_HANDLE_LENGTH == 64
NULL == -1

(* Bounds of the model *)

FineTicks == 2
MaxJumps == 1
MaxPoints == 26
MaxLongJumps == 2

Handles == {"a"}
AllHandles == {"a", "b"}
CodeKeys == {"K1"}
CodeInputs == {"K1", "k1"}
InviteKeys == {"I1"}
InviteInputs == {"I1", "i1"}
ExpiresInDays == {NULL, 1}
RedeemAttempts == {0, MAX_REDEEM_ATTEMPTS}
InviteAttempts == {0, MAX_INVITE_ATTEMPTS}
OAuthInvites == {"", "i1"}
RedeemPoints == {3, 8}

\* the handles of a site with more users than the leaderboard shows, in the
\* order of String.prototype.localeCompare: a, b, u10, u11, ..., u59
Population == <<"a", "b">> \o [i \in 1..LEADERBOARD_SIZE |-> "u" \o ToString(9 + i)]
PopulationSet == {Population[i] : i \in 1..Len(Population)}
Callers == {"a", "b", "u59"}
Banned == {"a", "b"}
AdminRequests == {<<"add", 3>>, <<"subtract", 6>>, <<"set", 1>>}

\* requests that fail validation: a toggle body without accessOn, a redeem
\* body without a code, adjustments with an unknown action or a negative
\* amount, batch counts and expiry days out of range
ToggleBodies == {[accessOn |-> TRUE], [accessOn |-> FALSE], [other |-> TRUE]}
RedeemInputs == CodeInputs \cup {""}
BadAdminRequests == {<<"multiply", 3>>, <<"add", -4>>}
RedeemCounts == {0, 1, MAX_REDEEM_COUNT + 1}
InviteCounts == {0, 1, MAX_INVITE_COUNT + 1}
BadExpiresInDays == {0, MAX_EXPIRES_DAYS + 1}

\* the invite codes of a site that issues two, and what is typed for them
TwoInviteKeys == {"I1", "I2"}
TwoInviteInputs == {"I1", "i2", ""}

\* the handles typed into the registration form, character by character:
\* Bob, bob!, Jo  e, ab, root, x-admin, !! (nothing is left of it)
RawHandles ==
    { <<"B", "o", "b">>, <<"b", "o", "b", "!">>, <<"J", "o", " ", " ", "e">>,
      <<"a", "b">>, <<"r", "o", "o", "t">>,
      <<"x", "-", "a", "d", "m", "i", "n">>, <<"!", "!">> }

\* `user-${crypto.randomBytes(3).toString('hex')}`, as drawn
RandomHandles == { <<"u", "s", "e", "r", "-", "0", "a", "1", "b", "2", "c">> }

\* the handles that ask to be let in: an existing user and two newcomers
Applicants == {"a", "b", "c"}

\* the slots of redeem requests that can be under way at once
Requests == {1, 2}

-----------------------------------------------------------------------------
(* Helpers *)

Max(a, b) == IF a >= b THEN a ELSE b

\* n whole points, in quarters
Pts(n) == 4 * n

\* JavaScript truthiness of a number-or-null field
Truthy(x) == x # NULL /\ x # 0

\* Math.round(x * 2) / 2 on a balance x given in quarters:
\* Math.round is floor(y + 0.5), here floor((q + 1) / 2) halves
RoundHalf(q) == 2 * ((q + 1) \div 2)

todayMidnight(ts) == ts - (ts % MS_PER_DAY)

\* the calendar day of an instant, standing for the string YYYY-MM-DD
toDateString(ts) == ts \div MS_PER_DAY

\* Date.parse(`${date}T00:00:00Z`)
parseDateUTC(d) == d * MS_PER_DAY

toUpperCase(c) ==
    CASE c = "k1" -> "K1"
      [] c = "i1" -> "I1"
      [] c = "i2" -> "I2"
      [] OTHER    -> c

NoState == [absent |-> TRUE]
NoCode == [absent |-> TRUE]
NoResp == [op |-> "none"]

-----------------------------------------------------------------------------
(* account.js: ledger functions *)

\* initialState stamping the instant of creation instead of the day boundary
initialState_StampNow(h, t) ==
    [ handle            |-> h,
      points            |-> Pts(INITIAL_POINTS),
      accessOn          |-> TRUE,
      lastCostAppliedAt |-> t,
      lastCheckInDate   |-> NULL,
      lastCheckInAt     |-> NULL,
      accessOffSince    |-> NULL ]

\* the ledger getOrInitState creates at t
initialState(h, t) ==
    [ handle            |-> h,
      points            |-> Pts(INITIAL_POINTS),
      accessOn          |-> TRUE,
      lastCostAppliedAt |-> todayMidnight(t),
      lastCheckInDate   |-> NULL,
      lastCheckInAt     |-> NULL,
      accessOffSince    |-> NULL ]

\* getOrInitState that initializes whether a record is stored or not
getOrInitState_AlwaysInit(acc, h, t) == initialState(h, t)

\* getOrInitState(h) at t: the stored record, or the new one it stores
getOrInitState(acc, h, t) ==
    IF acc[h] # NoState THEN acc[h] ELSE initialState(h, t)

\* chargedPoints without the clamp at 0
chargedPoints_NoClamp(state, days) ==
    LET rate == IF state.accessOn THEN 1 ELSE 0
        cost == Pts(days * rate)
    IN  RoundHalf(state.points - cost)

\* chargedPoints charging the daily rate whatever accessOn is
chargedPoints_AnyAccess(state, days) ==
    Max(0, RoundHalf(state.points - Pts(days)))

\* the points left after `days` days of cost
chargedPoints(state, days) ==
    LET rate == IF state.accessOn THEN 1 ELSE 0
        cost == Pts(days * rate)
    IN  Max(0, RoundHalf(state.points - cost))

\* purgeDue that never finds a purge due
purgeDue_Never(state, t) == FALSE

\* purgeDue with the window one day short
purgeDue_OneDayShort(state, t) ==
    /\ state.accessOn = FALSE
    /\ Truthy(state.accessOffSince)
    /\ (t - state.accessOffSince) >= (PURGE_DAYS - 1) * MS_PER_DAY

\* the purge condition of applyDailyCosts
purgeDue(state, t) ==
    /\ state.accessOn = FALSE
    /\ Truthy(state.accessOffSince)
    /\ (t - state.accessOffSince) >= PURGE_DAYS * MS_PER_DAY

\* purgedState stamping accessOffSince with the instant of the purge
purgedState_StampNow(state, t) ==
    [state EXCEPT !.points = 0,
                  !.accessOn = FALSE,
                  !.lastCheckInDate = NULL,
                  !.accessOffSince = t,
                  !.lastCostAppliedAt = todayMidnight(t)]

\* purgedState leaving accessOffSince where it was
purgedState_KeepOffSince(state, t) ==
    [state EXCEPT !.points = 0,
                  !.accessOn = FALSE,
                  !.lastCheckInDate = NULL,
                  !.lastCostAppliedAt = todayMidnight(t)]

\* the ledger as reset after a purge
purgedState(state, t) ==
    [state EXCEPT !.points = 0,
                  !.accessOn = FALSE,
                  !.lastCheckInDate = NULL,
                  !.accessOffSince = todayMidnight(t),
                  !.lastCostAppliedAt = todayMidnight(t)]

\* applyDailyCosts that charges but leaves lastCostAppliedAt where it was
applyDailyCosts_KeepStamp(state, t) ==
    LET nowMid == todayMidnight(t)
        appliedFrom == state.lastCostAppliedAt
    IN  IF appliedFrom > nowMid
        THEN [ state  |-> [state EXCEPT !.lastCostAppliedAt = nowMid],
               wrote  |-> FALSE,
               purged |-> FALSE ]
        ELSE LET days == (nowMid - appliedFrom) \div MS_PER_DAY
                 charged ==
                     IF days > 0
                     THEN [state EXCEPT !.points = chargedPoints(state, days)]
                     ELSE state
                 due == purgeDue(charged, t)
             IN  [ state  |-> IF due THEN purgedState(charged, t) ELSE charged,
                   wrote  |-> (days > 0) \/ due,
                   purged |-> due ]

\* applyDailyCosts(state) at instant t: the state it returns, whether it
\* wrote the state to storage, and whether it purged the user's data
applyDailyCosts(state, t) ==
    LET nowMid == todayMidnight(t)
        \* state.lastCostAppliedAt || ...: the stamp is a positive instant
        appliedFrom == state.lastCostAppliedAt
    IN  IF appliedFrom > nowMid
        THEN [ state  |-> [state EXCEPT !.lastCostAppliedAt = nowMid],
               wrote  |-> FALSE,
               purged |-> FALSE ]
        ELSE LET days == (nowMid - appliedFrom) \div MS_PER_DAY
                 charged ==
                     IF days > 0
                     THEN [state EXCEPT
                             !.points = chargedPoints(state, days),
                             !.lastCostAppliedAt = appliedFrom + days * MS_PER_DAY]
                     ELSE state
                 due == purgeDue(charged, t)
             IN  [ state  |-> IF due THEN purgedState(charged, t) ELSE charged,
                   wrote  |-> (days > 0) \/ due,
                   purged |-> due ]

\* getOrInitState followed by applyDailyCosts, as every user request starts
loadState(acc, h, t) == applyDailyCosts(getOrInitState(acc, h, t), t)

\* what storage holds for h once loadState has run and nothing else is written
storedAfterLoad(acc, h, t) ==
    LET r == loadState(acc, h, t)
    IN  IF r.wrote THEN r.state ELSE getOrInitState(acc, h, t)

\* the check-in instant the cooldown is measured from
effectiveLastCheckIn(state) ==
    IF state.lastCheckInAt = NULL /\ state.lastCheckInDate # NULL
    THEN parseDateUTC(state.lastCheckInDate)
    ELSE state.lastCheckInAt

\* the cooldown test of POST /checkin, by calendar day instead of 24 h
inCooldown_CalendarDay(state, t) ==
    state.lastCheckInDate # NULL /\ state.lastCheckInDate = toDateString(t)

\* the cooldown test of POST /checkin
inCooldown(state, t) ==
    LET lastCheckInAt == effectiveLastCheckIn(state)
    IN  lastCheckInAt # NULL /\ (t - lastCheckInAt) < COOLDOWN_MS

\* the cooldown error's nextCheckInAt, counted from the failed attempt
cooldownError_FromNow(h, state, t) ==
    [ op |-> "checkin", h |-> h, status |-> "cooldown",
      nextCheckInAt |-> t + COOLDOWN_MS ]

\* the cooldown error of POST /checkin
cooldownError(h, state, t) ==
    [ op |-> "checkin", h |-> h, status |-> "cooldown",
      nextCheckInAt |-> effectiveLastCheckIn(state) + COOLDOWN_MS ]

\* checkedIn stamping the day boundary instead of the instant
checkedIn_StampMidnight(state, t) ==
    [state EXCEPT !.points = RoundHalf(state.points + Pts(CHECKIN_POINTS)),
                  !.lastCheckInAt = todayMidnight(t),
                  !.lastCheckInDate = toDateString(t)]

\* the ledger as a successful check-in at t writes it
checkedIn(state, t) ==
    [state EXCEPT !.points = RoundHalf(state.points + Pts(CHECKIN_POINTS)),
                  !.lastCheckInAt = t,
                  !.lastCheckInDate = toDateString(t)]

\* the no-op test of POST /toggle, never finding the ledger where it is asked
sameAccess_Never(state, desired) == FALSE

\* the no-op test of POST /toggle: the ledger already is as desired
sameAccess(state, desired) == state.accessOn = desired

\* the activation test of POST /toggle, asking only for a positive balance
canActivate_AnyPositive(state) == ~(state.points <= 0)

\* the activation test of POST /toggle: the balance covers the fee
canActivate(state) == ~(state.points < Pts(ACTIVATION_FEE))

\* activated leaving accessOffSince set
activated_KeepOffSince(state) ==
    [state EXCEPT !.points = Max(0, RoundHalf(state.points - Pts(ACTIVATION_FEE))),
                  !.accessOn = TRUE]

\* the ledger as turning access ON writes it
activated(state) ==
    [state EXCEPT !.points = Max(0, RoundHalf(state.points - Pts(ACTIVATION_FEE))),
                  !.accessOn = TRUE,
                  !.accessOffSince = NULL]

\* deactivated stamping the day boundary instead of the instant
deactivated_StampMidnight(state, t) ==
    [state EXCEPT !.accessOn = FALSE, !.accessOffSince = todayMidnight(t)]

\* the ledger as turning access OFF at t writes it
deactivated(state, t) ==
    [state EXCEPT !.accessOn = FALSE, !.accessOffSince = t]

\* credited without the rounding
credited_NoRound(state, added) ==
    [state EXCEPT !.points = state.points + added]

\* the ledger as redeeming a code worth `added` writes it
credited(state, added) ==
    [state EXCEPT !.points = RoundHalf(state.points + added)]

-----------------------------------------------------------------------------
(* account.js: request handlers.  Each yields the ledger storage holds for   *)
(* h when the handler returns, its response, whether it purged the user's    *)
(* data, and whether it wrote anything other than daily costs or a purge.    *)

\* canCheckInToday of buildStatus, true only once more than 24 h have passed
canCheckInToday_After(lastCheckInAt, t) ==
    lastCheckInAt = NULL \/ (t - lastCheckInAt) > COOLDOWN_MS

\* canCheckInToday of buildStatus
canCheckInToday(lastCheckInAt, t) ==
    lastCheckInAt = NULL \/ (t - lastCheckInAt) >= COOLDOWN_MS

\* buildStatus / GET /status
buildStatus(acc, h, t) ==
    LET s0 == getOrInitState(acc, h, t)
        beforeOffSince == s0.accessOffSince
        r == applyDailyCosts(s0, t)
        state == r.state
        offDays ==
            IF state.accessOn \/ ~Truthy(state.accessOffSince)
            THEN 0
            ELSE (todayMidnight(t) - todayMidnight(state.accessOffSince)) \div MS_PER_DAY
        lastCheckInAt == effectiveLastCheckIn(state)
        canCheckIn == canCheckInToday(lastCheckInAt, t)
        nextCheckInAt == IF lastCheckInAt = NULL THEN t ELSE lastCheckInAt + COOLDOWN_MS
        didPurge ==
            /\ Truthy(beforeOffSince)
            /\ ~state.accessOn
            /\ (t - beforeOffSince) >= PURGE_DAYS * MS_PER_DAY
    IN  [ stored  |-> storedAfterLoad(acc, h, t),
          purged  |-> r.purged,
          mutated |-> FALSE,
          resp    |-> [ op |-> "status", h |-> h, status |-> "ok",
                        points |-> state.points,
                        accessOn |-> state.accessOn,
                        offDays |-> offDays,
                        canCheckInToday |-> canCheckIn,
                        nextCheckInAt |-> nextCheckInAt,
                        purged |-> didPurge ] ]

\* POST /checkin
checkin(acc, h, t) ==
    LET r == loadState(acc, h, t)
        state == r.state
    IN  IF inCooldown(state, t)
        THEN [ stored  |-> storedAfterLoad(acc, h, t),
               purged  |-> r.purged,
               mutated |-> FALSE,
               resp    |-> cooldownError(h, state, t) ]
        ELSE LET new == checkedIn(state, t)
             IN  [ stored  |-> new,
                   purged  |-> r.purged,
                   mutated |-> TRUE,
                   resp    |-> [ op |-> "checkin", h |-> h, status |-> "ok",
                                 points |-> new.points,
                                 lastCheckInAt |-> new.lastCheckInAt,
                                 nextCheckInAt |-> t + COOLDOWN_MS ] ]

\* POST /toggle with a boolean accessOn = desired
toggle(acc, h, t, desired) ==
    LET r == loadState(acc, h, t)
        state == r.state
        unchanged(status) ==
            [ stored  |-> storedAfterLoad(acc, h, t),
              purged  |-> r.purged,
              mutated |-> FALSE,
              resp    |-> [ op |-> "toggle", h |-> h, status |-> status,
                            desired |-> desired, wrote |-> FALSE,
                            accessOn |-> state.accessOn,
                            points |-> state.points ] ]
        written(new) ==
            [ stored  |-> new,
              purged  |-> r.purged,
              mutated |-> TRUE,
              resp    |-> [ op |-> "toggle", h |-> h, status |-> "ok",
                            desired |-> desired, wrote |-> TRUE,
                            accessOn |-> new.accessOn,
                            points |-> new.points ] ]
    IN  IF sameAccess(state, desired)
        THEN unchanged("ok")
        ELSE IF desired
             THEN IF ~canActivate(state)
                  THEN unchanged("insufficient")
                  ELSE written(activated(state))
             ELSE written(deactivated(state, t))

\* POST /toggle with body `body`: no ledger is read unless accessOn is given
postToggle(acc, h, t, body) ==
    IF "accessOn" \notin DOMAIN body
    THEN [ stored  |-> acc[h],
           purged  |-> FALSE,
           mutated |-> FALSE,
           resp    |-> [ op |-> "toggleRejected", h |-> h, status |-> "bad_request" ] ]
    ELSE toggle(acc, h, t, body.accessOn)

\* getEffectiveAccess testing the balance before accessOn
getEffectiveAccess_PointsFirst(acc, h, t) ==
    LET r == loadState(acc, h, t)
        state == r.state
    IN  [ stored  |-> storedAfterLoad(acc, h, t),
          purged  |-> r.purged,
          mutated |-> FALSE,
          resp    |-> [ op |-> "access", h |-> h, status |-> "ok",
                        allowed |-> state.accessOn /\ state.points > 0,
                        reason |-> IF state.points <= 0 THEN "NO_POINTS"
                                   ELSE IF ~state.accessOn THEN "OFF"
                                   ELSE "NONE" ] ]

\* getEffectiveAccess for a request without a user
accessNotLoggedIn ==
    [ op |-> "access", h |-> "", status |-> "ok",
      allowed |-> FALSE, reason |-> "NOT_LOGGED_IN" ]

\* getEffectiveAccess for a logged-in request
getEffectiveAccess(acc, h, t) ==
    LET r == loadState(acc, h, t)
        state == r.state
    IN  [ stored  |-> storedAfterLoad(acc, h, t),
          purged  |-> r.purged,
          mutated |-> FALSE,
          resp    |-> [ op |-> "access", h |-> h, status |-> "ok",
                        allowed |-> state.accessOn /\ state.points > 0,
                        reason |-> IF ~state.accessOn THEN "OFF"
                                   ELSE IF state.points <= 0 THEN "NO_POINTS"
                                   ELSE "NONE" ] ]

\* the code record as marked used by POST /redeem
markRedeemUsed(data, h, t) ==
    [data EXCEPT !.used = TRUE, !.usedBy = h, !.usedAt = t]

\* the used test of POST /redeem, letting the code's user redeem it again
alreadyUsed_ByOther(data, h) == data.used /\ data.usedBy # h

\* the used test of POST /redeem
alreadyUsed(data, h) == data.used

\* POST /redeem, the part after the code was found unused and marked used
redeemCredit(acc, h, t, codeKey, added) ==
    LET r == loadState(acc, h, t)
        state == r.state
        new == credited(state, added)
    IN  [ stored  |-> new,
          purged  |-> r.purged,
          mutated |-> TRUE,
          resp    |-> [ op |-> "redeem", h |-> h, status |-> "ok",
                        key |-> codeKey,
                        points |-> new.points,
                        addedPoints |-> added ] ]

\* POST /redeem, a request rejected before the ledger is touched
redeemRejected(acc, h, codeKey, status) ==
    [ stored  |-> acc[h],
      purged  |-> FALSE,
      mutated |-> FALSE,
      resp    |-> [ op |-> "redeem", h |-> h, status |-> status,
                    key |-> codeKey ] ]

\* POST /redeem with body.code = code (the empty string: no code given);
\* cds is the store of redeem codes before, field codes the store after
redeem(acc, cds, h, t, code) ==
    LET codeKey == toUpperCase(code)
        redeemData == IF codeKey \in CodeKeys THEN cds[codeKey] ELSE NoCode
        rejected(status) ==
            [ out |-> redeemRejected(acc, h, codeKey, status), codes |-> cds ]
    IN  IF code = ""
        THEN rejected("bad_request")
        ELSE IF redeemData = NoCode
        THEN rejected("not_found")
        ELSE IF alreadyUsed(redeemData, h)
        THEN rejected("used")
        ELSE [ out   |-> redeemCredit(acc, h, t, codeKey, redeemData.points),
               codes |-> [cds EXCEPT ![codeKey] = markRedeemUsed(redeemData, h, t)] ]

\* a.localeCompare(b) for two handles of the population
place == [h \in PopulationSet |-> CHOOSE i \in 1..Len(Population) : Population[i] = h]
localeCompare(a, b) == place[a] - place[b]

\* the comparator of GET /leaderboard, breaking ties by the later handle
compareRows_TieDescending(a, b) ==
    IF b.points # a.points
    THEN b.points - a.points
    ELSE localeCompare(b.handle, a.handle)

\* the comparator of GET /leaderboard: negative when row a goes before row b
compareRows(a, b) ==
    IF b.points # a.points
    THEN b.points - a.points
    ELSE localeCompare(a.handle, b.handle)

\* rows.sort(compareRows) on rows with distinct handles: the comparator is a
\* total order on them, so each row goes to the place after the rows that
\* compare before it
sortRows(rows) ==
    LET placed(before) ==
            [i \in 1..Cardinality(rows) |-> CHOOSE r \in rows : before[r] = i - 1]
    IN  CHOOSE sorted \in
            { placed(before) : before \in
                {[r \in rows |-> Cardinality({q \in rows : compareRows(q, r) < 0})]} } :
            TRUE

\* rows.findIndex(r => r.handle === h), counted from 1, or 0 for -1
findIndex(sorted, h) ==
    IF \E i \in 1..Len(sorted) : sorted[i].handle = h
    THEN CHOOSE i \in 1..Len(sorted) : sorted[i].handle = h
    ELSE 0

\* rows.slice(0, n)
slice(sorted, n) == [i \in 1..(IF Len(sorted) < n THEN Len(sorted) ELSE n) |-> sorted[i]]

\* GET /leaderboard by myHandle.  It reads the ledger of every handle with an
\* identity record that is not disabled, and the caller's, creating the
\* ledgers that are missing, and applies no daily costs
leaderboard(acc, usrs, dis, myHandle, t) ==
    LET listed == usrs \ dis
        rows == {[handle |-> h, points |-> getOrInitState(acc, h, t).points] : h \in listed}
        reply(sorted) ==
            LET myIndex == findIndex(sorted, myHandle)
            IN  [ op |-> "leaderboard", h |-> myHandle, status |-> "ok",
                  total |-> Len(sorted),
                  myRank |-> IF myIndex >= 1 THEN myIndex ELSE NULL,
                  myPoints |-> getOrInitState(acc, myHandle, t).points,
                  leaderboard |-> slice(sorted, LEADERBOARD_SIZE) ]
    IN  [ accounts |-> [h \in DOMAIN acc |->
                          IF h \in listed \cup {myHandle}
                          THEN getOrInitState(acc, h, t)
                          ELSE acc[h]],
          resp     |-> CHOOSE r \in {reply(sorted) : sorted \in {sortRows(rows)}} : TRUE ]

-----------------------------------------------------------------------------
(* admin.js: administrative handlers *)

NoUser == ""

\* adjusted without the clamp of subtract at 0
adjusted_NoClamp(old, action, amount) ==
    CASE action = "add"      -> old + amount
      [] action = "subtract" -> old - amount
      [] action = "set"      -> amount

\* POST /users/:handle/points: newPoints after the switch on action
adjusted(old, action, amount) ==
    CASE action = "add"      -> old + amount
      [] action = "subtract" -> Max(0, old - amount)
      [] action = "set"      -> amount

\* badAmount letting every amount through
badAmount_Never(amount) == FALSE

\* POST /users/:handle/points: the test of the amount, which is a number
badAmount(amount) == amount < 0

\* POST /users/:handle/points
adminPoints(acc, h, action, amount) ==
    LET rejected(status) ==
            [ stored  |-> acc[h],
              purged  |-> FALSE,
              mutated |-> FALSE,
              resp    |-> [ op |-> "adminPoints", h |-> h, status |-> status,
                            action |-> action, amount |-> amount ] ]
    IN  IF action \notin {"add", "subtract", "set"}
        THEN rejected("bad_action")
        ELSE IF badAmount(amount)
        THEN rejected("bad_amount")
        ELSE IF acc[h] = NoState
        THEN rejected("not_found")
        ELSE LET newPoints == adjusted(acc[h].points, action, amount)
                 new == [acc[h] EXCEPT !.points = RoundHalf(newPoints)]
             IN  [ stored  |-> new,
                   purged  |-> FALSE,
                   mutated |-> TRUE,
                   resp    |-> [ op |-> "adminPoints", h |-> h, status |-> "ok",
                                 action |-> action, amount |-> amount,
                                 points |-> new.points ] ]

\* DELETE /users/:handle/data starting the purge countdown as a toggle OFF
\* does, from the day the costs were last applied
adminDeleteData_StampOff(acc, h) ==
    [ stored  |-> IF acc[h] = NoState
                  THEN acc[h]
                  ELSE [acc[h] EXCEPT !.points = 0,
                                      !.accessOn = FALSE,
                                      !.lastCheckInDate = NULL,
                                      !.accessOffSince = acc[h].lastCostAppliedAt],
      purged  |-> FALSE,
      mutated |-> acc[h] # NoState,
      resp    |-> [ op |-> "adminDeleteData", h |-> h, status |-> "ok" ] ]

\* DELETE /users/:handle/data
adminDeleteData(acc, h) ==
    [ stored  |-> IF acc[h] = NoState
                  THEN acc[h]
                  ELSE [acc[h] EXCEPT !.points = 0,
                                      !.accessOn = FALSE,
                                      !.lastCheckInDate = NULL],
      purged  |-> FALSE,
      mutated |-> acc[h] # NoState,
      resp    |-> [ op |-> "adminDeleteData", h |-> h, status |-> "ok" ] ]

\* the outcome of the generator's retry loop,
\*   while (await storage.getItem(key(code)) && attempts < limit) { ... },
\* as a pair (code, attempts) the loop can end with: it ends on a taken code
\* only once the attempts are exhausted, and every retry followed a collision
drawn(store, code, attempts, limit) ==
    /\ attempts \in 0..limit
    /\ store[code] # NoCode => attempts = limit
    /\ attempts > 0 => \E k \in DOMAIN store : store[k] # NoCode

\* POST /redeem-codes: the record written for one generated code
newRedeemCode(code, points) ==
    [ code      |-> code,
      points    |-> points,
      used      |-> FALSE,
      usedBy    |-> NoUser,
      usedAt    |-> NULL ]

\* the store after the write of POST /redeem-codes
redeemCodeWritten(cds, code, points) ==
    [cds EXCEPT ![code] = newRedeemCode(code, points)]

\* POST /redeem-codes with a count that is out of range or 1, the retry loop
\* having ended on `code` after `attempts` retries
adminCreateRedeemCode(cds, count, code, attempts, points) ==
    LET rejected(status) ==
            [ codes |-> cds,
              resp  |-> [ op |-> "adminCreateRedeem", status |-> status,
                          key |-> "", exhausted |-> FALSE,
                          count |-> count, points |-> points ] ]
    IN  IF points <= 0
        THEN rejected("bad_points")
        ELSE IF count <= 0 \/ count > MAX_REDEEM_COUNT
        THEN rejected("bad_count")
        ELSE [ codes |-> redeemCodeWritten(cds, code, points),
               resp  |-> [ op |-> "adminCreateRedeem", status |-> "ok",
                           key |-> code,
                           exhausted |-> cds[code] # NoCode,
                           count |-> count, points |-> points ] ]

\* DELETE /redeem-codes/:code; it does not look at codeData.used
adminDeleteRedeemCode(cds, code) ==
    LET codeKey == toUpperCase(code)
        codeData == IF codeKey \in CodeKeys THEN cds[codeKey] ELSE NoCode
        reply(status) == [ op |-> "adminDeleteRedeem", status |-> status,
                           key |-> codeKey ]
    IN  IF codeData = NoCode
        THEN [ codes |-> cds, resp |-> reply("not_found") ]
        ELSE [ codes |-> [cds EXCEPT ![codeKey] = NoCode], resp |-> reply("ok") ]

\* POST /invite-codes: the record written for one generated code
newInviteCode(code, expiresAt) ==
    [ code      |-> code,
      used      |-> FALSE,
      usedBy    |-> NoUser,
      usedAt    |-> NULL,
      expiresAt |-> expiresAt ]

\* POST /invite-codes with a count that is out of range or 1, the retry loop
\* having ended on `code` after `attempts` retries
adminCreateInviteCode(inv, count, code, attempts, expiresInDays, t) ==
    LET reply(status) == [ op |-> "adminCreateInvite", status |-> status,
                           key |-> code,
                           exhausted |-> inv[code] # NoCode,
                           count |-> count, expiresInDays |-> expiresInDays ]
        expiresAt == IF expiresInDays = NULL
                     THEN NULL
                     ELSE t + expiresInDays * MS_PER_DAY
    IN  IF count <= 0 \/ count > MAX_INVITE_COUNT
        THEN [ invites |-> inv, resp |-> reply("bad_count") ]
        ELSE IF expiresInDays # NULL
                /\ (expiresInDays <= 0 \/ expiresInDays > MAX_EXPIRES_DAYS)
        THEN [ invites |-> inv, resp |-> reply("bad_expiry") ]
        ELSE IF attempts >= MAX_INVITE_ATTEMPTS
        THEN [ invites |-> inv, resp |-> reply("failed") ]
        ELSE [ invites |-> [inv EXCEPT ![code] = newInviteCode(code, expiresAt)],
               resp    |-> reply("ok") ]

\* DELETE /invite-codes/:code
adminDeleteInviteCode(inv, code) ==
    LET key == toUpperCase(code)
        data == IF key \in InviteKeys THEN inv[key] ELSE NoCode
        reply(status) == [ op |-> "adminDeleteInvite", status |-> status,
                           key |-> key ]
    IN  IF data = NoCode
        THEN [ invites |-> inv, resp |-> reply("not_found") ]
        ELSE IF data.used
        THEN [ invites |-> inv, resp |-> reply("used") ]
        ELSE [ invites |-> [inv EXCEPT ![key] = NoCode], resp |-> reply("ok") ]

-----------------------------------------------------------------------------
(* users-public.js, oauth.js: registration by invite code *)

\* inviteExpired without the test
inviteExpired_Never(invite, t) == FALSE

\* whether an invite record has expired at t
inviteExpired(invite, t) == Truthy(invite.expiresAt) /\ invite.expiresAt < t

\* the invite record as marked used by a registration
markInviteUsed(invite, h, t) ==
    [invite EXCEPT !.used = TRUE, !.usedBy = h, !.usedAt = t]

\* POST /register with a well-formed handle and password
register(inv, usrs, code, handle, t) ==
    LET inviteKey == toUpperCase(code)
        invite == IF inviteKey \in DOMAIN inv THEN inv[inviteKey] ELSE NoCode
        rejected(status) ==
            [ invites |-> inv, users |-> usrs,
              resp |-> [ op |-> "register", h |-> handle, status |-> status,
                         key |-> inviteKey ] ]
    IN  IF code = ""
        THEN rejected("bad_request")
        ELSE IF invite = NoCode
        THEN rejected("not_found")
        ELSE IF invite.used
        THEN rejected("used")
        ELSE IF inviteExpired(invite, t)
        THEN rejected("expired")
        ELSE IF handle \in usrs
        THEN rejected("occupied")
        ELSE [ invites |-> [inv EXCEPT ![inviteKey] = markInviteUsed(invite, handle, t)],
               users   |-> usrs \cup {handle},
               resp    |-> [ op |-> "register", h |-> handle, status |-> "ok",
                             key |-> inviteKey ] ]

\* the characters String.prototype.toLowerCase changes, and what it makes
\* of them
UpperCase ==
    << "A", "B", "C", "D", "E", "F", "G", "H", "I", "J", "K", "L", "M",
       "N", "O", "P", "Q", "R", "S", "T", "U", "V", "W", "X", "Y", "Z" >>
LowerCase ==
    << "a", "b", "c", "d", "e", "f", "g", "h", "i", "j", "k", "l", "m",
       "n", "o", "p", "q", "r", "s", "t", "u", "v", "w", "x", "y", "z" >>
Digits == {"0", "1", "2", "3", "4", "5", "6", "7", "8", "9"}

\* handle.toLowerCase(), a string being the sequence of its characters
toLowerCase(s) ==
    [i \in 1..Len(s) |->
        IF \E k \in 1..Len(UpperCase) : UpperCase[k] = s[i]
        THEN LowerCase[CHOOSE k \in 1..Len(UpperCase) : UpperCase[k] = s[i]]
        ELSE s[i]]

\* .replace(/[^a-z0-9-_]/g, '-')
replaceDisallowed(s) ==
    [i \in 1..Len(s) |->
        IF \/ \E k \in 1..Len(LowerCase) : LowerCase[k] = s[i]
           \/ s[i] \in Digits \cup {"-", "_"}
        THEN s[i]
        ELSE "-"]

\* .replace(/-{2,}/g, '-')
RECURSIVE collapseDashes(_)
collapseDashes(s) ==
    IF Len(s) < 2 THEN s
    ELSE IF s[1] = "-" /\ s[2] = "-" THEN collapseDashes(Tail(s))
    ELSE <<s[1]>> \o collapseDashes(Tail(s))

\* .replace(/^-+|-+$/g, '')
RECURSIVE trimDashes(_)
trimDashes(s) ==
    IF s = <<>> THEN s
    ELSE IF s[1] = "-" THEN trimDashes(Tail(s))
    ELSE IF s[Len(s)] = "-" THEN trimDashes(SubSeq(s, 1, Len(s) - 1))
    ELSE s

\* normHandle of POST /register, keeping the capitals
normHandle_KeepCase(handle) ==
    LET s == trimDashes(collapseDashes(replaceDisallowed(handle)))
    IN  SubSeq(s, 1, IF Len(s) < MAX_HANDLE_LENGTH THEN Len(s) ELSE MAX_HANDLE_LENGTH)

\* normHandle of POST /register
normHandle(handle) ==
    LET s == trimDashes(collapseDashes(replaceDisallowed(toLowerCase(handle))))
    IN  SubSeq(s, 1, IF Len(s) < MAX_HANDLE_LENGTH THEN Len(s) ELSE MAX_HANDLE_LENGTH)

\* the string of a sequence of characters
RECURSIVE join(_)
join(s) == IF s = <<>> THEN "" ELSE s[1] \o join(Tail(s))

USERNAME_BLACKLIST ==
    { "admin", "administrator", "root", "system", "moderator", "mod",
      "owner", "support", "help", "service", "api", "www", "ftp",
      "mail", "email", "webmaster", "postmaster", "hostmaster",
      "null", "undefined", "none", "test", "demo", "guest",
      "anonymous", "bot", "robot", "official", "staff" }

sensitivePatterns ==
    { <<"a", "d", "m", "i", "n">>,
      <<"m", "o", "d", "e", "r", "a", "t", "o", "r">>,
      <<"s", "u", "p", "p", "o", "r", "t">>,
      <<"o", "f", "f", "i", "c", "i", "a", "l">> }

\* String.prototype.includes
includes(s, pattern) ==
    \E i \in 1..(Len(s) - Len(pattern) + 1) :
        SubSeq(s, i, i + Len(pattern) - 1) = pattern

\* POST /register with body {code, handle, password}, the password of six
\* characters or more; random is what crypto.randomBytes yields if asked
postRegister(inv, usrs, code, handle, random, t) ==
    LET norm == normHandle(handle)
        finalHandle == IF norm = <<>> THEN random ELSE norm
        rejected(status) ==
            [ invites |-> inv, users |-> usrs,
              resp |-> [ op |-> "register", h |-> join(finalHandle),
                         status |-> status, key |-> toUpperCase(code) ] ]
    IN  IF code = "" \/ handle = <<>>
        THEN rejected("bad_request")
        ELSE IF Len(finalHandle) < MIN_HANDLE_LENGTH
        THEN rejected("too_short")
        ELSE IF join(finalHandle) \in USERNAME_BLACKLIST
        THEN rejected("blacklisted")
        ELSE IF \E pattern \in sensitivePatterns : includes(finalHandle, pattern)
        THEN rejected("reserved")
        ELSE register(inv, usrs, code, join(finalHandle), t)

\* validateInviteCode without the test of `used`
validateInviteCode_IgnoreUsed(inv, code, t) ==
    LET inviteKey == toUpperCase(code)
        invite == IF inviteKey \in DOMAIN inv THEN inv[inviteKey] ELSE NoCode
    IN  /\ code # ""
        /\ invite # NoCode
        /\ ~inviteExpired(invite, t)

\* oauth.js validateInviteCode
validateInviteCode(inv, code, t) ==
    LET inviteKey == toUpperCase(code)
        invite == IF inviteKey \in DOMAIN inv THEN inv[inviteKey] ELSE NoCode
    IN  /\ code # ""
        /\ invite # NoCode
        /\ ~invite.used
        /\ ~inviteExpired(invite, t)

\* oauth.js ensureUser, called when an OAuth login for `handle` completes with
\* the invite code kept in the session (the empty string: none)
ensureUser(inv, usrs, enabled, handle, inviteCode, t) ==
    LET inviteKey == toUpperCase(inviteCode)
        hasValidInviteCode == validateInviteCode(inv, inviteCode, t)
        reply(status) == [ op |-> "oauth", h |-> handle, status |-> status,
                           key |-> inviteKey ]
    IN  IF handle \in usrs
        THEN [ invites |-> inv, users |-> usrs, resp |-> reply("ok") ]
        ELSE IF ~enabled /\ ~hasValidInviteCode
        THEN [ invites |-> inv, users |-> usrs,
               resp |-> reply("REGISTRATION_DISABLED") ]
        ELSE [ invites |-> IF hasValidInviteCode
                           THEN [inv EXCEPT ![inviteKey] =
                                    markInviteUsed(inv[inviteKey], handle, t)]
                           ELSE inv,
               users   |-> usrs \cup {handle},
               resp    |-> reply("created") ]

-----------------------------------------------------------------------------
(* The state machine *)

\* a request slot with no request under way
Idle ==
    [ pc |-> "idle", h |-> NoUser, key |-> "", redeemData |-> NoCode,
      state |-> NoState, resp |-> NoResp, overlapped |-> FALSE,
      invite |-> NoCode, registrationAllowed |-> FALSE,
      hasValidInviteCode |-> FALSE,
      caller |-> NoUser, action |-> "", amount |-> 0 ]

NoBase ==
    [ points |-> 0, mid |-> 0, purged |-> FALSE, prevOk |-> NULL, lastOk |-> NULL,
      pending |-> FALSE, offAt |-> NULL, purgedAt |-> NULL ]

\* the history kept for h after a request with result res: the balance and
\* the cost high-water mark as of the latest write other than a daily cost
\* (purged: a purge has run since), the instants of the latest two
\* check-ins that succeeded, and whether a purge has been executed that no
\* status response has reported since (pending), and the instant since which
\* the stored accessOn has been false without interruption (offAt), and the
\* instant of the latest purge (purgedAt)
newBase(old, created, res, t) ==
    LET succeeded == res.resp.op = "checkin" /\ res.resp.status = "ok"
        prevOk == IF succeeded THEN old.lastOk ELSE old.prevOk
        lastOk == IF succeeded THEN t ELSE old.lastOk
        reported == res.resp.op = "status" /\ res.resp.purged
        pending == IF reported THEN FALSE ELSE old.pending \/ res.purged
        offAt == IF res.stored.accessOn THEN NULL
                 ELSE IF old.offAt # NULL THEN old.offAt
                 ELSE t
    IN  IF res.mutated \/ created
        THEN [ points  |-> res.stored.points,
               mid     |-> res.stored.lastCostAppliedAt,
               purged  |-> FALSE,
               prevOk  |-> prevOk,
               lastOk  |-> lastOk,
               pending |-> pending,
               offAt   |-> offAt,
               purgedAt |-> IF res.purged THEN t ELSE old.purgedAt ]
        ELSE [old EXCEPT !.purged = old.purged \/ res.purged,
                         !.pending = pending,
                         !.purgedAt = IF res.purged THEN t ELSE old.purgedAt]

\* purgeUserData without its try/catch: a removal that fails is thrown on
purgeUserData_NoCatch(usrs, h, canFail) ==
    {[users |-> usrs \ {h}, threw |-> FALSE]}
        \cup (IF canFail THEN {[users |-> usrs, threw |-> TRUE]} ELSE {})

\* purgeUserData(h): the identity records it can leave behind, and whether it
\* throws.  It removes user:<h> and then the content directory, and catches
\* whatever either throws, so that a removal that fails leaves the record
\* where it was and nothing is thrown; removing what is absent is no failure
purgeUserData(usrs, h, canFail) ==
    {[users |-> usrs \ {h}, threw |-> FALSE]}
        \cup (IF canFail THEN {[users |-> usrs, threw |-> FALSE]} ELSE {})

InitStore(rec, canFail) ==
    /\ now = MS_PER_DAY
    /\ accounts = [h \in AllHandles |-> NoState]
    /\ users = Handles
    /\ codes = [c \in CodeKeys |-> NoCode]
    /\ invites = [c \in InviteKeys |-> NoCode]
    /\ registrationEnabled = TRUE
    /\ resp = NoResp
    /\ base = [h \in AllHandles |-> NoBase]
    /\ recording = rec
    /\ disabled = {}
    /\ faulty = canFail
    /\ inflight = [r \in Requests |-> Idle]

\* a response that touches no ledger
Reply(r) == resp' = IF recording THEN r ELSE NoResp

\* a request on h's ledger returns with result res; had anything been thrown
\* while the ledger was loaded, the handler's catch would answer 500 with
\* nothing written
Commit(h, res) ==
    \E purge \in IF res.purged
                 THEN purgeUserData(users, h, faulty)
                 ELSE {[users |-> users, threw |-> FALSE]} :
        /\ users' = purge.users
        /\ disabled' = disabled \cap users'
        /\ IF purge.threw
           THEN /\ accounts' = accounts
                /\ Reply([op |-> res.resp.op, h |-> h, status |-> "error"])
                /\ base' = base
           ELSE /\ IF res.stored = NoState THEN TRUE
                   ELSE res.stored.points <= Pts(MaxPoints)
                /\ accounts' = [accounts EXCEPT ![h] = res.stored]
                /\ Reply(res.resp)
                /\ base' = IF recording /\ res.stored # NoState
                           THEN [base EXCEPT ![h] =
                                   newBase(base[h], accounts[h] = NoState, res, now)]
                           ELSE base
        /\ UNCHANGED <<now, invites, registrationEnabled, recording, faulty,
                       inflight>>

Status(h) ==
    /\ Commit(h, buildStatus(accounts, h, now))
    /\ UNCHANGED codes

CheckIn(h) ==
    /\ Commit(h, checkin(accounts, h, now))
    /\ UNCHANGED codes

Toggle(h, body) ==
    /\ Commit(h, postToggle(accounts, h, now, body))
    /\ UNCHANGED codes

EffectiveAccess(h) ==
    /\ Commit(h, getEffectiveAccess(accounts, h, now))
    /\ UNCHANGED codes

\* getEffectiveAccess(req) with no req.user
EffectiveAccessAnonymous ==
    /\ Reply(accessNotLoggedIn)
    /\ UNCHANGED <<now, accounts, users, codes, invites, registrationEnabled, base,
                   recording, disabled, faulty, inflight>>

Redeem(h, code) ==
    LET r == redeem(accounts, codes, h, now, code)
    IN  /\ codes' = r.codes
        /\ Commit(h, r.out)

AdminPoints(h, action, amount) ==
    /\ Commit(h, adminPoints(accounts, h, action, amount))
    /\ UNCHANGED codes

AdminDeleteData(h) ==
    /\ Commit(h, adminDeleteData(accounts, h))
    /\ UNCHANGED codes

AdminCreateRedeemCode(count, code, attempts, points) ==
    LET r == adminCreateRedeemCode(codes, count, code, attempts, points)
    IN  /\ drawn(codes, code, attempts, MAX_REDEEM_ATTEMPTS)
        /\ codes' = r.codes
        /\ Reply(r.resp)
        /\ UNCHANGED <<now, accounts, users, invites, registrationEnabled, base,
                       recording, disabled, faulty, inflight>>

AdminDeleteRedeemCode(code) ==
    LET r == adminDeleteRedeemCode(codes, code)
    IN  /\ codes' = r.codes
        /\ Reply(r.resp)
        /\ UNCHANGED <<now, accounts, users, invites, registrationEnabled, base,
                       recording, disabled, faulty, inflight>>

AdminCreateInviteCode(count, code, attempts, expiresInDays) ==
    LET r == adminCreateInviteCode(invites, count, code, attempts, expiresInDays, now)
    IN  /\ drawn(invites, code, attempts, MAX_INVITE_ATTEMPTS)
        /\ invites' = r.invites
        /\ Reply(r.resp)
        /\ UNCHANGED <<now, accounts, users, codes, registrationEnabled, base,
                       recording, disabled, faulty, inflight>>

AdminDeleteInviteCode(code) ==
    LET r == adminDeleteInviteCode(invites, code)
    IN  /\ invites' = r.invites
        /\ Reply(r.resp)
        /\ UNCHANGED <<now, accounts, users, codes, registrationEnabled, base,
                       recording, disabled, faulty, inflight>>

\* POST /config
AdminSetConfig(enabled) ==
    /\ registrationEnabled' = enabled
    /\ Reply([op |-> "adminConfig", status |-> "ok"])
    /\ UNCHANGED <<now, accounts, users, codes, invites, base, recording,
                   disabled, faulty, inflight>>

Register(code, handle) ==
    LET r == register(invites, users, code, handle, now)
    IN  /\ invites' = r.invites
        /\ users' = r.users
        /\ Reply(r.resp)
        /\ UNCHANGED <<now, accounts, codes, registrationEnabled, base, recording,
                   disabled, faulty, inflight>>

\* POST /register as the form sends it
PostRegister(code, handle, random) ==
    LET r == postRegister(invites, users, code, handle, random, now)
    IN  /\ invites' = r.invites
        /\ users' = r.users
        /\ Reply(r.resp)
        /\ UNCHANGED <<now, accounts, codes, registrationEnabled, base, recording,
                       disabled, faulty, inflight>>

OAuthLogin(handle, inviteCode) ==
    LET r == ensureUser(invites, users, registrationEnabled, handle, inviteCode, now)
    IN  /\ invites' = r.invites
        /\ users' = r.users
        /\ Reply(r.resp)
        /\ UNCHANGED <<now, accounts, codes, registrationEnabled, base, recording,
                   disabled, faulty, inflight>>

\* GET /leaderboard
Leaderboard(caller) ==
    LET r == leaderboard(accounts, users, disabled, caller, now)
    IN  /\ accounts' = r.accounts
        /\ Reply(r.resp)
        /\ UNCHANGED <<now, users, codes, invites, registrationEnabled, base,
                       recording, disabled, faulty, inflight>>

\* POST /users/:handle/toggle-ban
AdminToggleBan(h) ==
    /\ disabled' = IF h \notin users THEN disabled
                   ELSE IF h \in disabled THEN disabled \ {h} ELSE disabled \cup {h}
    /\ Reply([ op |-> "adminToggleBan", h |-> h,
               status |-> IF h \in users THEN "ok" ELSE "not_found" ])
    /\ UNCHANGED <<now, accounts, users, codes, invites, registrationEnabled, base,
                   recording, faulty, inflight>>

(* POST /redeem, one storage operation at a time: a request gives way to   *)
(* the other requests at each await of the handler.                         *)

\* the request in slot r answers with response reply
finish(r, reply) ==
    /\ inflight' = [inflight EXCEPT ![r].pc = "done", ![r].resp = reply]
    /\ Reply(reply)

\* a request arrives with body.code = code, a string that is not empty
RedeemBegin(r, h, code) ==
    /\ inflight[r].pc = "idle"
    /\ inflight' = [inflight EXCEPT ![r].pc = "readCode",
                                    ![r].h = h,
                                    ![r].key = toUpperCase(code)]
    /\ UNCHANGED <<now, accounts, users, codes, invites, registrationEnabled, resp,
                   base, recording, disabled, faulty>>

\* await storage.getItem(codeKey), and the tests and the marking that follow
\* it without giving way.  A request that finds the code unused while another
\* holds it unused and has not written it yet overlaps with that one
RedeemReadCode(r) ==
    LET q == inflight[r]
        redeemData == IF q.key \in CodeKeys THEN codes[q.key] ELSE NoCode
        holders == {o \in Requests \ {r} :
                       inflight[o].pc = "writeCode" /\ inflight[o].key = q.key}
    IN  /\ q.pc = "readCode"
        /\ IF redeemData = NoCode
           THEN finish(r, redeemRejected(accounts, q.h, q.key, "not_found").resp)
           ELSE IF alreadyUsed(redeemData, q.h)
           THEN finish(r, redeemRejected(accounts, q.h, q.key, "used").resp)
           ELSE /\ inflight' =
                       [o \in Requests |->
                           IF o = r
                           THEN [q EXCEPT !.pc = "writeCode",
                                          !.redeemData = markRedeemUsed(redeemData, q.h, now),
                                          !.overlapped = holders # {}]
                           ELSE IF o \in holders
                           THEN [inflight[o] EXCEPT !.overlapped = TRUE]
                           ELSE inflight[o]]
                /\ UNCHANGED resp
        /\ UNCHANGED <<now, accounts, users, codes, invites, registrationEnabled,
                       base, recording, disabled, faulty>>

\* await storage.setItem(codeKey, redeemData)
RedeemWriteCode(r) ==
    LET q == inflight[r]
    IN  /\ q.pc = "writeCode"
        /\ codes' = [codes EXCEPT ![q.key] = q.redeemData]
        /\ inflight' = [inflight EXCEPT ![r].pc = "readLedger"]
        /\ UNCHANGED <<now, accounts, users, invites, registrationEnabled, resp,
                       base, recording, disabled, faulty>>

\* getOrInitState: await storage.getItem(toAccountKey(handle))
RedeemReadLedger(r) ==
    LET q == inflight[r]
    IN  /\ q.pc = "readLedger"
        /\ inflight' =
              IF accounts[q.h] # NoState
              THEN [inflight EXCEPT ![r].pc = "applyCosts",
                                    ![r].state = accounts[q.h]]
              ELSE [inflight EXCEPT ![r].pc = "initLedger",
                                    ![r].state = initialState(q.h, now)]
        /\ UNCHANGED <<now, accounts, users, codes, invites, registrationEnabled,
                       resp, base, recording, disabled, faulty>>

\* getOrInitState: await storage.setItem(toAccountKey(handle), initial)
RedeemInitLedger(r) ==
    LET q == inflight[r]
    IN  /\ q.pc = "initLedger"
        /\ accounts' = [accounts EXCEPT ![q.h] = q.state]
        /\ inflight' = [inflight EXCEPT ![r].pc = "applyCosts"]
        /\ UNCHANGED <<now, users, codes, invites, registrationEnabled, resp, base,
                       recording, disabled, faulty>>

\* await applyDailyCosts(state), with its purge and its write taken together
RedeemApplyCosts(r) ==
    LET q == inflight[r]
        c == applyDailyCosts(q.state, now)
    IN  /\ q.pc = "applyCosts"
        /\ \E purge \in IF c.purged
                         THEN purgeUserData(users, q.h, faulty)
                         ELSE {[users |-> users, threw |-> FALSE]} :
              /\ users' = purge.users
              /\ disabled' = disabled \cap users'
              /\ IF purge.threw
                 THEN /\ finish(r, [op |-> "redeem", h |-> q.h, status |-> "error",
                                    key |-> q.key])
                      /\ UNCHANGED accounts
                 ELSE /\ accounts' = IF c.wrote
                                     THEN [accounts EXCEPT ![q.h] = c.state]
                                     ELSE accounts
                      /\ inflight' = [inflight EXCEPT ![r].pc = "writeLedger",
                                                      ![r].state = c.state]
                      /\ UNCHANGED resp
        /\ UNCHANGED <<now, codes, invites, registrationEnabled, base, recording,
                       faulty>>

\* state.points = ...; await storage.setItem(toAccountKey(handle), state); and
\* the response
RedeemWriteLedger(r) ==
    LET q == inflight[r]
        new == credited(q.state, q.redeemData.points)
    IN  /\ q.pc = "writeLedger"
        /\ new.points <= Pts(MaxPoints)
        /\ accounts' = [accounts EXCEPT ![q.h] = new]
        /\ finish(r, [ op |-> "redeem", h |-> q.h, status |-> "ok",
                       key |-> q.key,
                       points |-> new.points,
                       addedPoints |-> q.redeemData.points ])
        /\ UNCHANGED <<now, users, codes, invites, registrationEnabled, base,
                       recording, disabled, faulty>>

-----------------------------------------------------------------------------
(* POST /register and ensureUser one storage operation at a time, each kept   *)
(* in a request slot between its awaits.                                      *)

\* POST /register arrives with a code and a handle that pass the form's tests
RegisterBegin(r, code, handle) ==
    /\ inflight[r].pc = "idle"
    /\ inflight' = [inflight EXCEPT ![r].pc = "registerReadInvite",
                                    ![r].h = handle,
                                    ![r].key = toUpperCase(code)]
    /\ UNCHANGED <<now, accounts, users, codes, invites, registrationEnabled, resp,
                   base, recording, disabled, faulty>>

\* const invite = await storage.getItem(inviteKey), and the tests on it
RegisterReadInvite(r) ==
    LET q == inflight[r]
        invite == IF q.key \in DOMAIN invites THEN invites[q.key] ELSE NoCode
        reply(status) == [ op |-> "register", h |-> q.h, status |-> status,
                           key |-> q.key ]
    IN  /\ q.pc = "registerReadInvite"
        /\ IF invite = NoCode THEN finish(r, reply("not_found"))
           ELSE IF invite.used THEN finish(r, reply("used"))
           ELSE IF inviteExpired(invite, now) THEN finish(r, reply("expired"))
           ELSE /\ inflight' = [inflight EXCEPT ![r].pc = "registerReadUser",
                                                ![r].invite = invite]
                /\ UNCHANGED resp
        /\ UNCHANGED <<now, accounts, users, codes, invites, registrationEnabled,
                       base, recording, disabled, faulty>>

\* const exists = await storage.getItem(userKey)
RegisterReadUser(r) ==
    LET q == inflight[r]
    IN  /\ q.pc = "registerReadUser"
        /\ IF q.h \in users
           THEN finish(r, [ op |-> "register", h |-> q.h, status |-> "occupied",
                            key |-> q.key ])
           ELSE /\ inflight' = [inflight EXCEPT ![r].pc = "registerWriteUser"]
                /\ UNCHANGED resp
        /\ UNCHANGED <<now, accounts, users, codes, invites, registrationEnabled,
                       base, recording, disabled, faulty>>

\* await storage.setItem(userKey, user), and the seeding of the directories
RegisterWriteUser(r) ==
    LET q == inflight[r]
    IN  /\ q.pc = "registerWriteUser"
        /\ users' = users \cup {q.h}
        /\ inflight' = [inflight EXCEPT ![r].pc = "registerWriteInvite"]
        /\ UNCHANGED <<now, accounts, codes, invites, registrationEnabled, resp,
                       base, recording, disabled, faulty>>

\* invite.used = true; ...; await storage.setItem(inviteKey, invite); and the
\* response
RegisterWriteInvite(r) ==
    LET q == inflight[r]
    IN  /\ q.pc = "registerWriteInvite"
        /\ invites' = [invites EXCEPT ![q.key] = markInviteUsed(q.invite, q.h, now)]
        /\ finish(r, [ op |-> "register", h |-> q.h, status |-> "ok",
                       key |-> q.key ])
        /\ UNCHANGED <<now, accounts, users, codes, registrationEnabled, base,
                       recording, disabled, faulty>>

\* an OAuth login completes for `handle`, the session holding inviteCode
OAuthBegin(r, handle, inviteCode) ==
    /\ inflight[r].pc = "idle"
    /\ inflight' = [inflight EXCEPT ![r].pc = "ensureReadUser",
                                    ![r].h = handle,
                                    ![r].key = toUpperCase(inviteCode)]
    /\ UNCHANGED <<now, accounts, users, codes, invites, registrationEnabled, resp,
                   base, recording, disabled, faulty>>

\* ensureUser: const existing = await storage.getItem(key)
EnsureReadUser(r) ==
    LET q == inflight[r]
    IN  /\ q.pc = "ensureReadUser"
        /\ IF q.h \in users
           THEN finish(r, [ op |-> "oauth", h |-> q.h, status |-> "ok",
                            key |-> q.key ])
           ELSE /\ inflight' = [inflight EXCEPT ![r].pc = "ensureReadConfig"]
                /\ UNCHANGED resp
        /\ UNCHANGED <<now, accounts, users, codes, invites, registrationEnabled,
                       base, recording, disabled, faulty>>

\* ensureUser: const registrationAllowed = await isRegistrationEnabled()
EnsureReadConfig(r) ==
    /\ inflight[r].pc = "ensureReadConfig"
    /\ inflight' = [inflight EXCEPT ![r].pc = "ensureValidate",
                                    ![r].registrationAllowed = registrationEnabled]
    /\ UNCHANGED <<now, accounts, users, codes, invites, registrationEnabled, resp,
                   base, recording, disabled, faulty>>

\* ensureUser: await validateInviteCode(inviteCode), and the test that
\* throws REGISTRATION_DISABLED
EnsureValidate(r) ==
    LET q == inflight[r]
        code == IF q.key \in DOMAIN invites THEN q.key ELSE ""
        hasValidInviteCode == validateInviteCode(invites, code, now)
    IN  /\ q.pc = "ensureValidate"
        /\ IF ~q.registrationAllowed /\ ~hasValidInviteCode
           THEN finish(r, [ op |-> "oauth", h |-> q.h,
                            status |-> "REGISTRATION_DISABLED", key |-> q.key ])
           ELSE /\ inflight' = [inflight EXCEPT
                                   ![r].pc = "ensureWriteUser",
                                   ![r].hasValidInviteCode = hasValidInviteCode]
                /\ UNCHANGED resp
        /\ UNCHANGED <<now, accounts, users, codes, invites, registrationEnabled,
                       base, recording, disabled, faulty>>

\* ensureUser: await storage.setItem(key, user)
EnsureWriteUser(r) ==
    LET q == inflight[r]
    IN  /\ q.pc = "ensureWriteUser"
        /\ users' = users \cup {q.h}
        /\ IF q.hasValidInviteCode
           THEN /\ inflight' = [inflight EXCEPT ![r].pc = "markReadInvite"]
                /\ UNCHANGED resp
           ELSE finish(r, [ op |-> "oauth", h |-> q.h, status |-> "created",
                            key |-> q.key ])
        /\ UNCHANGED <<now, accounts, codes, invites, registrationEnabled, base,
                       recording, disabled, faulty>>

\* markInviteCodeAsUsed: const invite = await storage.getItem(inviteKey)
MarkReadInvite(r) ==
    LET q == inflight[r]
    IN  /\ q.pc = "markReadInvite"
        /\ IF invites[q.key] = NoCode
           THEN finish(r, [ op |-> "oauth", h |-> q.h, status |-> "created",
                            key |-> q.key ])
           ELSE /\ inflight' = [inflight EXCEPT ![r].pc = "markWriteInvite",
                                                ![r].invite = invites[q.key]]
                /\ UNCHANGED resp
        /\ UNCHANGED <<now, accounts, users, codes, invites, registrationEnabled,
                       base, recording, disabled, faulty>>

\* markInviteCodeAsUsed: invite.used = true; ...; await storage.setItem
MarkWriteInvite(r) ==
    LET q == inflight[r]
    IN  /\ q.pc = "markWriteInvite"
        /\ invites' = [invites EXCEPT ![q.key] = markInviteUsed(q.invite, q.h, now)]
        /\ finish(r, [ op |-> "oauth", h |-> q.h, status |-> "created",
                       key |-> q.key ])
        /\ UNCHANGED <<now, accounts, users, codes, registrationEnabled, base,
                       recording, disabled, faulty>>

-----------------------------------------------------------------------------
(* GET /leaderboard and POST /users/:handle/points one storage operation at   *)
(* a time, as far as they read and write the ledger of one handle.            *)

\* GET /leaderboard by caller reaches the listed user h in its loop
LeaderboardBegin(r, caller, h) ==
    /\ inflight[r].pc = "idle"
    /\ caller \in users
    /\ h \in users \ disabled
    /\ inflight' = [inflight EXCEPT ![r].pc = "boardReadLedger",
                                    ![r].caller = caller,
                                    ![r].h = h]
    /\ UNCHANGED <<now, accounts, users, codes, invites, registrationEnabled, resp,
                   base, recording, disabled, faulty>>

\* getOrInitState(handle): await storage.getItem(toAccountKey(handle))
LeaderboardReadLedger(r) ==
    LET q == inflight[r]
    IN  /\ q.pc = "boardReadLedger"
        /\ IF accounts[q.h] # NoState
           THEN finish(r, [ op |-> "leaderboard", h |-> q.caller, status |-> "ok",
                            listed |-> q.h, points |-> accounts[q.h].points ])
           ELSE /\ inflight' = [inflight EXCEPT ![r].pc = "boardInitLedger",
                                                ![r].state = initialState(q.h, now)]
                /\ UNCHANGED resp
        /\ UNCHANGED <<now, accounts, users, codes, invites, registrationEnabled,
                       base, recording, disabled, faulty>>

\* getOrInitState(handle): await storage.setItem(toAccountKey(handle), initial)
LeaderboardInitLedger(r) ==
    LET q == inflight[r]
    IN  /\ q.pc = "boardInitLedger"
        /\ accounts' = [accounts EXCEPT ![q.h] = q.state]
        /\ finish(r, [ op |-> "leaderboard", h |-> q.caller, status |-> "ok",
                       listed |-> q.h, points |-> q.state.points ])
        /\ UNCHANGED <<now, users, codes, invites, registrationEnabled, base,
                       recording, disabled, faulty>>

\* POST /users/:handle/points arrives with an action and an amount that pass
\* the tests
AdminPointsBegin(r, h, action, amount) ==
    /\ inflight[r].pc = "idle"
    /\ action \in {"add", "subtract", "set"}
    /\ ~badAmount(amount)
    /\ inflight' = [inflight EXCEPT ![r].pc = "adminReadLedger",
                                    ![r].h = h,
                                    ![r].action = action,
                                    ![r].amount = amount]
    /\ UNCHANGED <<now, accounts, users, codes, invites, registrationEnabled, resp,
                   base, recording, disabled, faulty>>

\* let accountData = await storage.getItem(accountKey)
AdminPointsReadLedger(r) ==
    LET q == inflight[r]
    IN  /\ q.pc = "adminReadLedger"
        /\ IF accounts[q.h] = NoState
           THEN finish(r, [ op |-> "adminPoints", h |-> q.h, status |-> "not_found",
                            action |-> q.action, amount |-> q.amount ])
           ELSE /\ inflight' = [inflight EXCEPT ![r].pc = "adminWriteLedger",
                                                ![r].state = accounts[q.h]]
                /\ UNCHANGED resp
        /\ UNCHANGED <<now, accounts, users, codes, invites, registrationEnabled,
                       base, recording, disabled, faulty>>

\* accountData.points = ...; await storage.setItem(accountKey, accountData)
AdminPointsWriteLedger(r) ==
    LET q == inflight[r]
        new == [q.state EXCEPT !.points = adjusted(q.state.points, q.action, q.amount)]
    IN  /\ q.pc = "adminWriteLedger"
        /\ accounts' = [accounts EXCEPT ![q.h] = new]
        /\ finish(r, [ op |-> "adminPoints", h |-> q.h, status |-> "ok",
                       action |-> q.action, amount |-> q.amount,
                       points |-> new.points ])
        /\ UNCHANGED <<now, users, codes, invites, registrationEnabled, base,
                       recording, disabled, faulty>>

\* the long step of the clock: one tick short of the purge window, so that
\* the window of a ledger turned OFF mid-day can run out mid-day
JumpTicks == PURGE_DAYS * MS_PER_DAY - 1

\* time passes by one tick, up to FineTicks ticks after the start or a jump
Tick ==
    /\ ((now + 1 - MS_PER_DAY) % JumpTicks) \in 1..FineTicks
    /\ now' = now + 1
    /\ resp' = NoResp
    /\ UNCHANGED <<accounts, users, codes, invites, registrationEnabled, base,
                   recording, disabled, faulty, inflight>>

\* time passes by the long step, maxJumps times at most
JumpWithin(maxJumps) ==
    /\ now + JumpTicks <= MS_PER_DAY + maxJumps * JumpTicks + FineTicks
    /\ now' = now + JumpTicks
    /\ resp' = NoResp
    /\ UNCHANGED <<accounts, users, codes, invites, registrationEnabled, base,
                   recording, disabled, faulty, inflight>>

Jump == JumpWithin(MaxJumps)

\* the requests that read and write one ledger, and the clock
NextLedger ==
    \/ \E h \in Handles : Status(h)
    \/ \E h \in Handles : CheckIn(h)
    \/ \E h \in Handles, desired \in BOOLEAN :
          Toggle(h, [accessOn |-> desired])
    \/ \E h \in Handles : EffectiveAccess(h)
    \/ EffectiveAccessAnonymous
    \/ \E h \in Handles, req \in AdminRequests : AdminPoints(h, req[1], req[2])
    \/ \E h \in Handles : AdminDeleteData(h)
    \/ Tick
    \/ Jump

\* the ledger requests together with the redeem codes
NextAll ==
    \/ \E h \in Handles : Status(h)
    \/ \E h \in Handles : CheckIn(h)
    \/ \E h \in Handles, desired \in BOOLEAN :
          Toggle(h, [accessOn |-> desired])
    \/ \E h \in Handles : EffectiveAccess(h)
    \/ \E h \in Handles, code \in CodeInputs : Redeem(h, code)
    \/ \E h \in Handles, req \in AdminRequests : AdminPoints(h, req[1], req[2])
    \/ \E h \in Handles : AdminDeleteData(h)
    \/ \E code \in CodeKeys, attempts \in RedeemAttempts, points \in RedeemPoints :
          AdminCreateRedeemCode(1, code, attempts, points)
    \/ Tick
    \/ Jump

\* one ledger under its owner's and the administrator's requests, with the
\* responses and the history recorded
Spec == InitStore(TRUE, FALSE) /\ [][NextLedger]_vars

\* the requests of the ledger's owner, and the clock
NextUser ==
    \/ \E h \in Handles : Status(h)
    \/ \E h \in Handles : CheckIn(h)
    \/ \E h \in Handles, desired \in BOOLEAN :
          Toggle(h, [accessOn |-> desired])
    \/ \E h \in Handles : EffectiveAccess(h)
    \/ Tick
    \/ Jump

\* one ledger under its owner's requests, the owner's client asking for the
\* status again and again
SpecLive ==
    /\ InitStore(TRUE, FALSE)
    /\ [][NextUser]_vars
    /\ \A h \in Handles : WF_vars(Status(h))

\* the same with redeem codes created and redeemed, nothing recorded
SpecAll == InitStore(FALSE, FALSE) /\ [][NextAll]_vars

\* redeem codes created, redeemed and deleted, with two handles of which one
\* is registered at the start and the other by its first OAuth login, and the
\* clock in long steps
NextCodes ==
    \/ \E h \in users, code \in CodeInputs : Redeem(h, code)
    \/ \E code \in CodeKeys, attempts \in RedeemAttempts, points \in RedeemPoints :
          AdminCreateRedeemCode(1, code, attempts, points)
    \/ \E code \in CodeInputs : AdminDeleteRedeemCode(code)
    \/ \E h \in AllHandles, code \in OAuthInvites : OAuthLogin(h, code)
    \/ Jump

\* the redeem codes' life cycle, with the responses recorded
SpecCodes == InitStore(TRUE, FALSE) /\ [][NextCodes]_vars

\* invite codes created, used by registrations and deleted, the registration
\* switch, and the clock
NextInvites ==
    \/ \E code \in InviteKeys, attempts \in InviteAttempts, days \in ExpiresInDays :
          AdminCreateInviteCode(1, code, attempts, days)
    \/ \E code \in InviteInputs : AdminDeleteInviteCode(code)
    \/ \E enabled \in BOOLEAN : AdminSetConfig(enabled)
    \/ \E code \in InviteInputs, h \in AllHandles : Register(code, h)
    \/ \E h \in AllHandles, code \in OAuthInvites : OAuthLogin(h, code)
    \/ Tick
    \/ Jump

\* the invite codes' life cycle, with the responses recorded
SpecInvites == InitStore(TRUE, FALSE) /\ [][NextInvites]_vars

\* a handle leaves by the purge and is registered again: its owner turns
\* access OFF and looks at the status, the administrator issues invite codes,
\* and handles register by password or by a first OAuth login
NextRejoin ==
    \/ \E h \in Handles : Status(h)
    \/ \E h \in Handles, desired \in BOOLEAN :
          Toggle(h, [accessOn |-> desired])
    \/ \E code \in InviteKeys, attempts \in InviteAttempts :
          AdminCreateInviteCode(1, code, attempts, NULL)
    \/ \E code \in InviteInputs, h \in AllHandles : Register(code, h)
    \/ \E h \in AllHandles, code \in OAuthInvites : OAuthLogin(h, code)
    \/ Tick
    \/ Jump

SpecRejoin == InitStore(TRUE, FALSE) /\ [][NextRejoin]_vars

\* requests that pass and requests that fail validation, on a store that
\* holds a ledger and codes, with days of cost falling due
NextRejects ==
    \/ \E h \in Handles : Status(h)
    \/ \E h \in Handles, body \in ToggleBodies : Toggle(h, body)
    \/ \E h \in Handles, code \in RedeemInputs : Redeem(h, code)
    \/ \E h \in Handles, req \in {<<"set", 1>>} \cup BadAdminRequests :
          AdminPoints(h, req[1], req[2])
    \/ \E count \in RedeemCounts, code \in CodeKeys, points \in RedeemPoints :
          AdminCreateRedeemCode(count, code, 0, points)
    \/ \E count \in InviteCounts, code \in InviteKeys,
          days \in ExpiresInDays \cup BadExpiresInDays :
          AdminCreateInviteCode(count, code, 0, days)
    \/ Jump

SpecRejects == InitStore(TRUE, FALSE) /\ [][NextRejects]_vars

\* one ledger under its owner's requests, the removals of a purge failing or
\* not, and time enough for the ledger to come up for purge twice
NextFaulty ==
    \/ \E h \in Handles : Status(h)
    \/ \E h \in Handles, desired \in BOOLEAN :
          Toggle(h, [accessOn |-> desired])
    \/ \E h \in Handles : CheckIn(h)
    \/ \E h \in Handles : EffectiveAccess(h)
    \/ Tick
    \/ JumpWithin(MaxLongJumps)

SpecFaulty == InitStore(TRUE, TRUE) /\ [][NextFaulty]_vars

\* two redeem requests that give way to each other at every storage
\* operation, by handles registered at the start or by a first OAuth login,
\* for a code the administrator created
NextRace ==
    \/ \E code \in CodeKeys, points \in RedeemPoints :
          AdminCreateRedeemCode(1, code, 0, points)
    \/ \E h \in AllHandles : OAuthLogin(h, "")
    \/ \E r \in Requests, h \in users, code \in CodeInputs : RedeemBegin(r, h, code)
    \/ \E r \in Requests : RedeemReadCode(r)
    \/ \E r \in Requests : RedeemWriteCode(r)
    \/ \E r \in Requests : RedeemReadLedger(r)
    \/ \E r \in Requests : RedeemInitLedger(r)
    \/ \E r \in Requests : RedeemApplyCosts(r)
    \/ \E r \in Requests : RedeemWriteLedger(r)
    \/ Jump

SpecRace == InitStore(TRUE, FALSE) /\ [][NextRace]_vars

\* the two ways in, password registration and OAuth login, with invite codes
\* issued, the registration switch, and the clock
NextGate ==
    \/ \E code \in InviteKeys, days \in ExpiresInDays :
          AdminCreateInviteCode(1, code, 0, days)
    \/ \E enabled \in BOOLEAN : AdminSetConfig(enabled)
    \/ \E code \in InviteInputs, h \in Applicants : Register(code, h)
    \/ \E h \in Applicants, code \in OAuthInvites : OAuthLogin(h, code)
    \/ Tick
    \/ Jump

SpecGate == InitStore(TRUE, FALSE) /\ [][NextGate]_vars

\* registrations by password and by OAuth login under way at once, with
\* invite codes issued and the registration switch
NextAdmit ==
    \/ \E code \in InviteKeys, days \in ExpiresInDays :
          AdminCreateInviteCode(1, code, 0, days)
    \/ \E enabled \in BOOLEAN : AdminSetConfig(enabled)
    \/ \E r \in Requests, code \in InviteInputs, h \in Applicants :
          RegisterBegin(r, code, h)
    \/ \E r \in Requests : RegisterReadInvite(r)
    \/ \E r \in Requests : RegisterReadUser(r)
    \/ \E r \in Requests : RegisterWriteUser(r)
    \/ \E r \in Requests : RegisterWriteInvite(r)
    \/ \E r \in Requests, h \in Applicants, code \in OAuthInvites :
          OAuthBegin(r, h, code)
    \/ \E r \in Requests : EnsureReadUser(r)
    \/ \E r \in Requests : EnsureReadConfig(r)
    \/ \E r \in Requests : EnsureValidate(r)
    \/ \E r \in Requests : EnsureWriteUser(r)
    \/ \E r \in Requests : MarkReadInvite(r)
    \/ \E r \in Requests : MarkWriteInvite(r)
    \/ Jump

SpecAdmit == InitStore(TRUE, FALSE) /\ [][NextAdmit]_vars

\* the slot of the owner's request and the slot of somebody else's
OwnerRequest == 1
OtherRequest == 2

\* one request of a ledger's owner at a time (a redeem), with a leaderboard
\* request of another user or an adjustment by the administrator under way
NextOverlap ==
    \/ \E code \in CodeKeys, points \in RedeemPoints :
          AdminCreateRedeemCode(1, code, 0, points)
    \/ \E h \in AllHandles : OAuthLogin(h, "")
    \/ \E h \in Handles, code \in CodeInputs : RedeemBegin(OwnerRequest, h, code)
    \/ RedeemReadCode(OwnerRequest)
    \/ RedeemWriteCode(OwnerRequest)
    \/ RedeemReadLedger(OwnerRequest)
    \/ RedeemInitLedger(OwnerRequest)
    \/ RedeemApplyCosts(OwnerRequest)
    \/ RedeemWriteLedger(OwnerRequest)
    \/ \E caller \in AllHandles \ Handles, h \in Handles :
          LeaderboardBegin(OtherRequest, caller, h)
    \/ LeaderboardReadLedger(OtherRequest)
    \/ LeaderboardInitLedger(OtherRequest)
    \/ \E h \in Handles, req \in AdminRequests :
          AdminPointsBegin(OtherRequest, h, req[1], req[2])
    \/ AdminPointsReadLedger(OtherRequest)
    \/ AdminPointsWriteLedger(OtherRequest)
    \/ Jump

SpecOverlap == InitStore(TRUE, FALSE) /\ [][NextOverlap]_vars

\* a ledger over two purge windows: its owner's requests, a redeem code, and
\* points added by the administrator
NextAgain ==
    \/ \E h \in Handles : Status(h)
    \/ \E h \in Handles : CheckIn(h)
    \/ \E h \in Handles, desired \in BOOLEAN :
          Toggle(h, [accessOn |-> desired])
    \/ \E h \in Handles, code \in CodeKeys : Redeem(h, code)
    \/ \E h \in Handles : AdminPoints(h, "set", 1)
    \/ \E code \in CodeKeys : AdminCreateRedeemCode(1, code, 0, 8)
    \/ Tick
    \/ JumpWithin(MaxLongJumps)

SpecAgain == InitStore(TRUE, FALSE) /\ [][NextAgain]_vars

\* a ledger turned OFF and ON by its owner and emptied by the administrator,
\* and its status, over two purge windows
NextOffDays ==
    \/ \E h \in Handles : Status(h)
    \/ \E h \in Handles, desired \in BOOLEAN :
          Toggle(h, [accessOn |-> desired])
    \/ \E h \in Handles : AdminDeleteData(h)
    \/ Tick
    \/ JumpWithin(MaxLongJumps)

SpecOffDays == InitStore(TRUE, FALSE) /\ [][NextOffDays]_vars

\* a site that issues two invite codes
InitForm ==
    /\ now = MS_PER_DAY
    /\ accounts = [h \in AllHandles |-> NoState]
    /\ users = Handles
    /\ codes = [c \in CodeKeys |-> NoCode]
    /\ invites = [c \in TwoInviteKeys |-> NoCode]
    /\ registrationEnabled = TRUE
    /\ resp = NoResp
    /\ base = [h \in AllHandles |-> NoBase]
    /\ recording = TRUE
    /\ disabled = {}
    /\ faulty = FALSE
    /\ inflight = [r \in Requests |-> Idle]

\* the registration form filled in well and badly, with invite codes issued
\* and running out
NextForm ==
    \/ \E code \in TwoInviteKeys, days \in ExpiresInDays :
          AdminCreateInviteCode(1, code, 0, days)
    \/ \E code \in TwoInviteInputs, handle \in RawHandles, random \in RandomHandles :
          PostRegister(code, handle, random)
    \/ Tick
    \/ Jump

SpecForm == InitForm /\ [][NextForm]_vars

\* a site of fifty-two registered users, none of which has a ledger yet
InitBoard ==
    /\ now = MS_PER_DAY
    /\ accounts = [h \in PopulationSet |-> NoState]
    /\ users = PopulationSet
    /\ codes = [c \in CodeKeys |-> NoCode]
    /\ invites = [c \in InviteKeys |-> NoCode]
    /\ registrationEnabled = TRUE
    /\ resp = NoResp
    /\ base = [h \in PopulationSet |-> NoBase]
    /\ recording = TRUE
    /\ disabled = {}
    /\ faulty = FALSE
    /\ inflight = [r \in Requests |-> Idle]

\* the leaderboard, with balances adjusted and users banned by the
\* administrator
NextBoard ==
    \/ \E caller \in Callers : Leaderboard(caller)
    \/ \E h \in Banned : AdminToggleBan(h)
    \/ \E h \in Handles, req \in AdminRequests : AdminPoints(h, req[1], req[2])

SpecBoard == InitBoard /\ [][NextBoard]_vars

-----------------------------------------------------------------------------
(* Properties *)

Has(h) == accounts[h] # NoState

\* the ledger a user request of h made now works on, after daily costs
post(h) == loadState(accounts, h, now).state

\* the latest request was a user request of h, all of which apply daily costs
AfterCostsOf(h) ==
    /\ resp.op \in {"status", "checkin", "toggle", "access"}
    /\ resp.h = h

\* C1: in every reachable state every stored ledger has points >= 0, whatever
\* sequence of lazy init, daily costs, check-in, toggle, redeem, purge, admin
\* adjust and admin delete-user-data led to it.
C1_PointsNonNegative ==
    \A h \in Handles : Has(h) => accounts[h].points >= 0

\* an access-ON ledger that redeemed a code and then had thirty days of cost
\* charged against a smaller balance
C1_Witness ==
    \E h \in Handles :
        /\ Has(h)
        /\ accounts[h].accessOn
        /\ accounts[h].points = 0
        /\ accounts[h].lastCostAppliedAt >= PURGE_DAYS * MS_PER_DAY
        /\ \E c \in CodeKeys : codes[c] # NoCode /\ codes[c].usedBy = h

\* C2: in every reachable state every stored ledger's points is a multiple of
\* 0.5 (two quarters), whatever amounts admin adjust is given and whatever
\* point values redeem codes carry.
C2_PointsHalfUnits ==
    \A h \in Handles : Has(h) => accounts[h].points % 2 = 0

\* a ledger that redeemed a code worth 0.75 points and holds an odd number of
\* halves
C2_Witness ==
    \E h \in Handles, c \in CodeKeys :
        /\ Has(h)
        /\ codes[c] # NoCode
        /\ codes[c].usedBy = h
        /\ codes[c].points = 3
        /\ accounts[h].points % 4 = 2

\* the balance D days of cost leave of p0
ExpectedPoints(p0, accessOn, D) ==
    IF accessOn THEN Max(0, p0 - Pts(D)) ELSE p0

\* whole days from h's cost high-water mark, as of the latest write that was
\* not a daily cost, to today
DaysElapsed(h) == (todayMidnight(now) - base[h].mid) \div MS_PER_DAY

\* C3 as claimed: whenever a user request has applied daily costs, the balance
\* is max(0, p0 - D) for an access-ON ledger and p0 for an access-OFF ledger,
\* D being the whole days elapsed since the balance p0 was last written
\* otherwise, however many requests ran in between and whenever.
C3_Original ==
    \A h \in Handles :
        AfterCostsOf(h) =>
            accounts[h].points =
                ExpectedPoints(base[h].points, accounts[h].accessOn, DaysElapsed(h))

\* C3 as amended: the same, unless a purge has zeroed the access-OFF ledger
\* since p0 was written.
C3_DailyCostOncePerDay ==
    \A h \in Handles :
        AfterCostsOf(h) /\ ~base[h].purged =>
            accounts[h].points =
                ExpectedPoints(base[h].points, accounts[h].accessOn, DaysElapsed(h))

\* a status request one day after a fresh ledger was created
C3_Witness ==
    \E h \in Handles :
        /\ AfterCostsOf(h)
        /\ resp.op = "status"
        /\ ~base[h].purged
        /\ accounts[h].accessOn
        /\ DaysElapsed(h) = 1
        /\ base[h].points = Pts(INITIAL_POINTS)
        /\ accounts[h].points = Pts(INITIAL_POINTS - 1)

\* the instants from t to the end of t's day
RestOfDay(t) == t .. (todayMidnight(t) + MS_PER_DAY - 1)

\* what storage holds once applyDailyCosts has run at t on the stored state
storedAfterCosts(state, t) ==
    LET r == applyDailyCosts(state, t)
    IN  IF r.wrote THEN r.state ELSE state

\* C4 as claimed: once a request has applied daily costs, a second
\* applyDailyCosts later the same day leaves the stored ledger as it is.
C4_Original ==
    \A h \in Handles :
        AfterCostsOf(h) =>
            \A t2 \in RestOfDay(now) :
                storedAfterCosts(accounts[h], t2) = accounts[h]

\* C4 as amended: the same, unless the ledger's thirty days of access OFF
\* run out between the two calls (the second call then purges).
C4_Idempotent ==
    \A h \in Handles :
        AfterCostsOf(h) =>
            \A t2 \in RestOfDay(now) :
                ~purgeDue(accounts[h], t2) =>
                    storedAfterCosts(accounts[h], t2) = accounts[h]

\* a status request at the start of a day has just purged the user
C4_Witness ==
    \E h \in Handles :
        /\ resp.op = "status"
        /\ resp.h = h
        /\ resp.purged
        /\ h \notin users
        /\ accounts[h].accessOffSince = now
        /\ RestOfDay(now) # {now}

C7_CheckInCredit ==
    [][ \A h \in Handles :
          (resp'.op = "checkin" /\ resp'.h = h /\ resp'.status = "ok")
          => /\ accounts'[h].points = post(h).points + Pts(5)
             /\ resp'.points = accounts'[h].points
             /\ accounts'[h].lastCheckInAt = now
             /\ accounts'[h].accessOn = post(h).accessOn
             /\ accounts'[h].accessOffSince = post(h).accessOffSince ]_vars

\* a check-in succeeded at mid-day on a ledger whose access is OFF
C7_Witness ==
    \E h \in Handles :
        /\ resp.op = "checkin"
        /\ resp.h = h
        /\ resp.status = "ok"
        /\ ~accounts[h].accessOn
        /\ accounts[h].accessOffSince # NULL
        /\ now # todayMidnight(now)

\* a request to turn h's access ON reached a ledger whose access was OFF
TurningOn(h) ==
    /\ resp'.op = "toggle"
    /\ resp'.h = h
    /\ resp'.desired
    /\ ~post(h).accessOn

\* C8 as claimed: turning ON with a balance of 0.5 succeeds and leaves 0;
\* with a balance of 0 it fails and leaves the ledger as it was.
C8_Original ==
    [][ \A h \in Handles :
          TurningOn(h)
          => /\ post(h).points = 2 =>
                  /\ resp'.status = "ok"
                  /\ accounts'[h].accessOn
                  /\ accounts'[h].points = 0
             /\ post(h).points = 0 =>
                  /\ resp'.status = "insufficient"
                  /\ accounts'[h] = storedAfterLoad(accounts, h, now) ]_vars

\* C8 as amended: turning ON with a balance of 0.5 fails just as with a
\* balance of 0, and leaves the ledger as the daily-cost application left it;
\* a balance of 1 is the smallest that succeeds, and it leaves 0.
C8_ToggleOnAtSmallBalance ==
    [][ \A h \in Handles :
          TurningOn(h)
          => /\ post(h).points \in {0, 2} =>
                  /\ resp'.status = "insufficient"
                  /\ accounts'[h] = storedAfterLoad(accounts, h, now)
             /\ post(h).points = Pts(1) =>
                  /\ resp'.status = "ok"
                  /\ accounts'[h].accessOn
                  /\ accounts'[h].points = 0 ]_vars

\* turning ON was refused at a balance of 0.5
C8_Witness ==
    \E h \in Handles :
        /\ resp.op = "toggle"
        /\ resp.h = h
        /\ resp.desired
        /\ resp.status = "insufficient"
        /\ accounts[h].points = 2
        /\ ~accounts[h].accessOn

\* C9: turning access ON from OFF succeeds iff the balance after daily costs
\* is >= 1; on success exactly 1 point is deducted, accessOn becomes true and
\* accessOffSince is cleared; otherwise the request is rejected and points,
\* accessOn and accessOffSince stay as the daily-cost application left them.
C9_ToggleOn ==
    [][ \A h \in Handles :
          TurningOn(h)
          => /\ (resp'.status = "ok") = (post(h).points >= Pts(1))
             /\ resp'.status \in {"ok", "insufficient"}
             /\ resp'.status = "ok" =>
                  /\ accounts'[h].points = post(h).points - Pts(1)
                  /\ accounts'[h].accessOn
                  /\ accounts'[h].accessOffSince = NULL
                  /\ resp'.accessOn
                  /\ resp'.points = accounts'[h].points
             /\ resp'.status = "insufficient" =>
                  /\ accounts'[h].points = post(h).points
                  /\ accounts'[h].accessOn = FALSE
                  /\ accounts'[h].accessOffSince = post(h).accessOffSince ]_vars

\* access was turned ON, for a fee, on a ledger that had been turned OFF
C9_Witness ==
    \E h \in Handles :
        /\ resp.op = "toggle"
        /\ resp.h = h
        /\ resp.desired
        /\ resp.wrote
        /\ resp.status = "ok"
        /\ accounts[h].accessOn
        /\ accounts[h].accessOffSince = NULL
        /\ accounts[h].points = base[h].points
        /\ accounts[h].points > 0

\* C10: turning access OFF from ON succeeds for any balance, sets accessOn to
\* false, stamps accessOffSince with the instant of the call and leaves the
\* balance as the daily costs left it.
C10_ToggleOff ==
    [][ \A h \in Handles :
          ( /\ resp'.op = "toggle"
            /\ resp'.h = h
            /\ ~resp'.desired
            /\ post(h).accessOn )
          => /\ resp'.status = "ok"
             /\ accounts'[h].accessOn = FALSE
             /\ accounts'[h].accessOffSince = now
             /\ accounts'[h].points = post(h).points
             /\ resp'.accessOn = FALSE
             /\ resp'.points = post(h).points ]_vars

\* access was turned OFF at mid-day with a balance of 0
C10_Witness ==
    \E h \in Handles :
        /\ resp.op = "toggle"
        /\ resp.h = h
        /\ ~resp.desired
        /\ resp.wrote
        /\ accounts[h].points = 0
        /\ accounts[h].accessOffSince = now
        /\ now # todayMidnight(now)

\* C11: a toggle request whose desired value is the accessOn the daily-cost
\* application left writes nothing more: the ledger is stored as the
\* daily-cost application left it, so no fee is charged when already ON and
\* accessOffSince is not stamped again when already OFF.
C11_ToggleNoOp ==
    [][ \A h \in Handles :
          ( /\ resp'.op = "toggle"
            /\ resp'.h = h
            /\ resp'.desired = post(h).accessOn )
          => /\ accounts'[h] = storedAfterLoad(accounts, h, now)
             /\ accounts'[h].points = post(h).points
             /\ accounts'[h].accessOffSince = post(h).accessOffSince
             /\ resp'.status = "ok"
             /\ ~resp'.wrote
             /\ resp'.points = post(h).points ]_vars

\* a second OFF request, later than the first, left the first one's stamp
C11_Witness ==
    \E h \in Handles :
        /\ resp.op = "toggle"
        /\ resp.h = h
        /\ ~resp.desired
        /\ ~resp.wrote
        /\ ~accounts[h].accessOn
        /\ accounts[h].accessOffSince # NULL
        /\ accounts[h].accessOffSince < now
        /\ accounts[h].points > 0

\* C12 as claimed: a stored ledger has accessOffSince set if and only if its
\* accessOn is false (every ledger is created with accessOn true, so one whose
\* accessOn is false has been through an OFF transition), after user toggles,
\* purge resets and administrative delete-user-data alike.
C12_Original ==
    \A h \in Handles :
        Has(h) => ((accounts[h].accessOffSince # NULL) <=> ~accounts[h].accessOn)

\* key k holds a redeem code
HoldsCode(k) == k \in CodeKeys /\ codes[k] # NoCode

\* what a redeem request does, `credit` being the balance a successful one
\* leaves given the balance after daily costs and the code's points.  A
\* request for a code already used fails with the already-used error and
\* changes neither a ledger nor the code; a request for an unused code marks
\* it used by the caller, credits the caller's ledger and no other ledger,
\* and any redeem request that follows it for the same code, by either
\* handle and in either letter case, fails with the already-used error and
\* changes nothing.
RedeemedOnce(credit(_, _)) ==
    \A h \in AllHandles :
        (resp'.op = "redeem" /\ resp'.h = h /\ HoldsCode(resp'.key))
        => LET k == resp'.key
           IN  IF codes[k].used
               THEN /\ resp'.status = "used"
                    /\ accounts' = accounts
                    /\ codes' = codes
               ELSE /\ resp'.status = "ok"
                    /\ codes'[k] = markRedeemUsed(codes[k], h, now)
                    /\ accounts'[h].points = credit(post(h).points, codes[k].points)
                    /\ \A g \in AllHandles \ {h} : accounts'[g] = accounts[g]
                    /\ \A h2 \in AllHandles, c2 \in CodeInputs :
                          toUpperCase(c2) = k
                          => LET second == redeem(accounts', codes', h2, now, c2)
                             IN  /\ second.out.resp.status = "used"
                                 /\ second.out.stored = accounts'[h2]
                                 /\ second.codes = codes'

PlainSum(p, v) == p + v
SumRoundedToHalf(p, v) == RoundHalf(p + v)

UsedIsKept(old, new) ==
    \A k \in DOMAIN old :
        /\ (old[k] # NoCode /\ old[k].used)
           => \/ new[k] = NoCode
              \/ /\ new[k].used
                 /\ new[k].usedBy = old[k].usedBy
                 /\ new[k].usedAt = old[k].usedAt
        /\ new[k] # NoCode
           => /\ new[k].used <=> new[k].usedBy # NoUser
              /\ new[k].used <=> new[k].usedAt # NULL

\* C14 as claimed: for every code key, redeem or invite, no operation (batch
\* creation, redeem or registration, delete) makes a key that holds a used
\* code hold an unused code or a different usedBy or usedAt, and usedBy and
\* usedAt are set together with used.
C14_Original ==
    [][UsedIsKept(codes, codes') /\ UsedIsKept(invites, invites')]_vars

\* the part of C14 about invite codes
C14_InviteCodes == [][UsedIsKept(invites, invites')]_vars

\* an invite code used by a registration
C14_InviteWitness ==
    \E k \in InviteKeys : invites[k] # NoCode /\ invites[k].used

\* a delete request for a code that is used is rejected and the record stays;
\* `op` names the request, `old` and `new` are the store before and after
DeleteRefusesUsed(op, old, new) ==
    \A k \in DOMAIN old :
        ( /\ resp'.op = op
          /\ resp'.key = k
          /\ old[k] # NoCode
          /\ old[k].used )
        => /\ resp'.status = "used"
           /\ new[k] = old[k]

\* C15 as claimed: a delete request on a used code, redeem or invite, is
\* rejected and the used record, with its usedBy and usedAt, remains stored.
C15_Original ==
    [][ /\ DeleteRefusesUsed("adminDeleteRedeem", codes, codes')
        /\ DeleteRefusesUsed("adminDeleteInvite", invites, invites') ]_vars

\* the part of C15 about invite codes
C15_InviteCodes ==
    [][DeleteRefusesUsed("adminDeleteInvite", invites, invites')]_vars

\* a delete request was refused for an invite code used by a registration
C15_InviteWitness ==
    /\ resp.op = "adminDeleteInvite"
    /\ resp.status = "used"
    /\ invites[resp.key].used

\* a batch creation (request `op`) whose generator collided until the
\* attempts were exhausted reports a failure and writes nothing, and no batch
\* creation changes a key that holds a code; `old` and `new` are the store
\* before and after
CreationNeverOverwrites(op, old, new) ==
    resp'.op = op
    => /\ resp'.exhausted => (resp'.status = "failed" /\ new = old)
       /\ \A k \in DOMAIN old : old[k] # NoCode => new[k] = old[k]

\* C16 as claimed: when generation collides until the attempts are exhausted
\* (10 for redeem codes, 50 for invite codes), batch creation reports a
\* failure and writes no record, and it never overwrites an existing record.
C16_Original ==
    [][ /\ CreationNeverOverwrites("adminCreateRedeem", codes, codes')
        /\ CreationNeverOverwrites("adminCreateInvite", invites, invites') ]_vars

\* the part of C16 about invite codes
C16_InviteCodes ==
    [][CreationNeverOverwrites("adminCreateInvite", invites, invites')]_vars

\* invite creation failed on a code that was taken
C16_InviteWitness ==
    /\ resp.op = "adminCreateInvite"
    /\ resp.exhausted
    /\ resp.status = "failed"
    /\ invites[resp.key] # NoCode

\* C17: a status check on a ledger whose access is OFF and whose
\* accessOffSince is at least 30 days in the past ends with points = 0,
\* accessOn = false and the identity record user:<handle> removed; a status
\* check that follows immediately changes nothing, purges nothing and does
\* not report a purge.
C17_PurgeOnStatus ==
    [][ \A h \in Handles :
          ( /\ resp'.op = "status"
            /\ resp'.h = h
            /\ Has(h)
            /\ ~accounts[h].accessOn
            /\ accounts[h].accessOffSince # NULL
            /\ now - accounts[h].accessOffSince >= PURGE_DAYS * MS_PER_DAY )
          => /\ accounts'[h].points = 0
             /\ accounts'[h].accessOn = FALSE
             /\ h \notin users'
             /\ resp'.points = 0
             /\ ~resp'.accessOn
             /\ LET again == buildStatus(accounts', h, now)
                IN  /\ again.stored = accounts'[h]
                    /\ ~again.purged
                    /\ ~again.resp.purged
                    /\ again.resp.points = 0
                    /\ ~again.resp.accessOn ]_vars

\* a status check purged a ledger that had a balance, mid-day, 30 days and a
\* half after it was turned OFF
C17_Witness ==
    \E h \in Handles :
        /\ resp.op = "status"
        /\ resp.h = h
        /\ resp.purged
        /\ h \notin users
        /\ base[h].points > 0
        /\ accounts[h].points = 0
        /\ now > todayMidnight(now)

\* C18 as claimed: when a status check has purged, the stored ledger has
\* points = 0, accessOn = false, accessOffSince = lastCostAppliedAt =
\* todayMidnight(now), and the handle is eligible to check in at once: the
\* status reports canCheckInToday = true and a check-in succeeds, whenever
\* its last check-in was.  (The cleared check-in timestamp is stated by what
\* it is claimed to bring about.)
C18_Original ==
    [][ \A h \in Handles :
          (resp'.op = "status" /\ resp'.h = h /\ resp'.purged)
          => /\ accounts'[h].points = 0
             /\ accounts'[h].accessOn = FALSE
             /\ accounts'[h].accessOffSince = todayMidnight(now)
             /\ accounts'[h].lastCostAppliedAt = todayMidnight(now)
             /\ resp'.canCheckInToday
             /\ checkin(accounts', h, now).resp.status = "ok" ]_vars

\* the part of C18 that holds: the reset fields, lastCheckInDate cleared and
\* lastCheckInAt left as it was
C18_PurgeReset ==
    [][ \A h \in Handles :
          (resp'.op = "status" /\ resp'.h = h /\ resp'.purged)
          => /\ accounts'[h].points = 0
             /\ accounts'[h].accessOn = FALSE
             /\ accounts'[h].accessOffSince = todayMidnight(now)
             /\ accounts'[h].lastCostAppliedAt = todayMidnight(now)
             /\ accounts'[h].lastCheckInDate = NULL
             /\ accounts'[h].lastCheckInAt = accounts[h].lastCheckInAt
             /\ resp'.canCheckInToday =
                   ( \/ accounts[h].lastCheckInAt = NULL
                     \/ now - accounts[h].lastCheckInAt >= COOLDOWN_MS ) ]_vars

\* the first half of C19: a status response carries purged = true if and
\* only if applyDailyCosts purged during that same status call
C19_FlagIffPurged ==
    [][ \A h \in Handles :
          (resp'.op = "status" /\ resp'.h = h)
          => (resp'.purged <=> loadState(accounts, h, now).purged) ]_vars

\* the second half of C19: every purge, whichever request executed it, is
\* eventually reported by a status response with purged = true
C19_EveryPurgeReported ==
    \A h \in Handles : base[h].pending ~> ~base[h].pending

\* C19 as claimed: both halves
C19_Original == C19_FlagIffPurged /\ C19_EveryPurgeReported

\* C20: effectiveAccess denies a request without a user with NOT_LOGGED_IN;
\* for a user it is evaluated on the ledger after daily costs and any purge,
\* allows iff accessOn is true and points > 0, and otherwise denies with OFF
\* when accessOn is false, whatever the balance, else with NO_POINTS.
C20_EffectiveAccess ==
    [][ resp'.op = "access"
        => IF resp'.h = NoUser
           THEN ~resp'.allowed /\ resp'.reason = "NOT_LOGGED_IN"
           ELSE LET state == post(resp'.h)
                IN  /\ resp'.allowed <=> (state.accessOn /\ state.points > 0)
                    /\ resp'.allowed => resp'.reason = "NONE"
                    /\ ~resp'.allowed =>
                          resp'.reason = IF ~state.accessOn THEN "OFF" ELSE "NO_POINTS"
                    /\ accounts'[resp'.h] = storedAfterLoad(accounts, resp'.h, now) ]_vars

\* access was denied with OFF to a ledger that is OFF and has no points
C20_Witness ==
    \E h \in Handles :
        /\ resp.op = "access"
        /\ resp.h = h
        /\ ~resp.allowed
        /\ resp.reason = "OFF"
        /\ ~accounts[h].accessOn
        /\ accounts[h].points = 0

Min(a, b) == IF a <= b THEN a ELSE b

\* C21: the leaderboard lists enabled users only, by points descending and,
\* among equal points, by ascending handle, cut to the first 50 rows: row i
\* is an enabled user with its stored balance, and exactly i - 1 enabled users
\* go before it; myRank is the caller's place, counted from 1, among all the
\* enabled users, the ones past row 50 included.
C21_Leaderboard ==
    [][ resp'.op = "leaderboard"
        => LET board == resp'.leaderboard
               enabledUsers == users \ disabled
               pts(h) == accounts'[h].points
               ahead(h) ==
                   {g \in enabledUsers :
                       \/ pts(g) > pts(h)
                       \/ pts(g) = pts(h) /\ place[g] < place[h]}
           IN  /\ Len(board) = Min(LEADERBOARD_SIZE, Cardinality(enabledUsers))
               /\ resp'.total = Cardinality(enabledUsers)
               /\ \A i \in 1..Len(board) :
                     /\ board[i].handle \in enabledUsers
                     /\ board[i].points = pts(board[i].handle)
                     /\ Cardinality(ahead(board[i].handle)) = i - 1
               /\ resp'.h \in enabledUsers
                     => resp'.myRank = 1 + Cardinality(ahead(resp'.h)) ]_vars

\* fifty-two users are ranked, the first two rows are a tie in handle order,
\* and the caller, with the smallest balance, is told a rank past the last row
C21_Witness ==
    /\ resp.op = "leaderboard"
    /\ resp.h = "a"
    /\ resp.total = Len(Population)
    /\ Len(resp.leaderboard) = LEADERBOARD_SIZE
    /\ resp.myRank = Len(Population)
    /\ resp.leaderboard[1].handle = "b"
    /\ resp.leaderboard[2].handle = "u10"
    /\ resp.leaderboard[1].points = resp.leaderboard[2].points

\* C22 as claimed: every leaderboard response carries a myRank that is not
\* null, whoever the caller and whatever became of its identity record.
C22_Original ==
    resp.op = "leaderboard" => resp.myRank # NULL

\* the invite record a request's code names, if any
InviteOf(key) == IF key \in DOMAIN invites THEN invites[key] ELSE NoCode

\* an invite is good at t: it exists, is unused, and does not expire or
\* expires after t
GoodUntilDeadline(invite, t) ==
    /\ invite # NoCode
    /\ ~invite.used
    /\ (invite.expiresAt = NULL \/ invite.expiresAt > t)

\* the same, the instant of expiry included
GoodThroughDeadline(invite, t) ==
    /\ invite # NoCode
    /\ ~invite.used
    /\ (invite.expiresAt = NULL \/ invite.expiresAt >= t)

\* both registration paths accept an invite code exactly when it is good:
\* password registration rejects the code (not found, used, expired) iff it
\* is not good, and registers the handle iff the code is good and the handle
\* is free; a first OAuth login creates the identity iff registration is open
\* or the code is good, and uses up the code iff it is good; a code that is
\* not good is left as it is and, where registration is closed, admits nobody
InviteRule(good(_, _)) ==
    /\ (resp'.op = "register" /\ resp'.status # "bad_request")
       => LET ok == good(InviteOf(resp'.key), now)
          IN  /\ ok <=> resp'.status \in {"ok", "occupied"}
              /\ resp'.status = "ok" <=> (ok /\ resp'.h \notin users)
              /\ resp'.status = "ok" =>
                    /\ users' = users \cup {resp'.h}
                    /\ invites'[resp'.key] =
                           markInviteUsed(invites[resp'.key], resp'.h, now)
              /\ resp'.status # "ok" => (users' = users /\ invites' = invites)
    /\ (resp'.op = "oauth" /\ resp'.h \notin users)
       => LET ok == good(InviteOf(resp'.key), now)
          IN  /\ resp'.status = "created" <=> (registrationEnabled \/ ok)
              /\ resp'.status = "created" <=> resp'.h \in users'
              /\ IF ok
                 THEN invites'[resp'.key] =
                          markInviteUsed(invites[resp'.key], resp'.h, now)
                 ELSE invites' = invites

\* C23 as claimed: an invite code is accepted iff it exists, is unused and
\* its expiresAt is absent or in the future, on both registration paths.
C23_Original == [][InviteRule(GoodUntilDeadline)]_vars

\* C23 as amended: the same, a code being accepted at the very instant of its
\* expiresAt as well (it is rejected only once expiresAt is in the past).
C23_InviteRule == [][InviteRule(GoodThroughDeadline)]_vars

\* with registration closed, a first OAuth login was admitted by an invite
\* code that had not reached its expiry, and used it up
C23_Witness ==
    /\ resp.op = "oauth"
    /\ resp.status = "created"
    /\ ~registrationEnabled
    /\ resp.key \in InviteKeys
    /\ invites[resp.key].used
    /\ invites[resp.key].usedBy = resp.h
    /\ invites[resp.key].expiresAt # NULL
    /\ invites[resp.key].usedAt < invites[resp.key].expiresAt

\* C24 as claimed: once a handle has been registered, by password or by a
\* first OAuth login, its first ledger access finds or creates the default
\* ledger, with 20 points, access ON and no accessOffSince, also when the
\* handle belonged to an account that was purged.
C24_Original ==
    \A h \in AllHandles :
        ( /\ \/ resp.op = "register" /\ resp.status = "ok"
             \/ resp.op = "oauth" /\ resp.status = "created"
          /\ resp.h = h )
        => LET state == getOrInitState(accounts, h, now)
           IN  /\ state.points = Pts(INITIAL_POINTS)
               /\ state.accessOn
               /\ state.accessOffSince = NULL

\* C25: an administrative adjustment of an existing ledger stores, rounded to
\* a multiple of 0.5, old + amount for add, max(0, old - amount) for subtract
\* and amount for set, old being the stored balance; it changes no other field
\* of the ledger (lastCostAppliedAt, accessOn, accessOffSince and
\* lastCheckInAt among them), and applies no daily cost, however many days
\* of cost are due.
C25_AdminAdjust ==
    [][ \A h \in Handles :
          (resp'.op = "adminPoints" /\ resp'.h = h /\ Has(h))
          => LET old == accounts[h].points
                 amount == resp'.amount
                 new == CASE resp'.action = "add"      -> old + amount
                          [] resp'.action = "subtract" ->
                                IF old - amount < 0 THEN 0 ELSE old - amount
                          [] resp'.action = "set"      -> amount
             IN  /\ resp'.status = "ok"
                 /\ accounts'[h].points \in {new - 1, new, new + 1}
                 /\ accounts'[h].points % 2 = 0
                 /\ new % 2 = 1 => accounts'[h].points = new + 1
                 /\ resp'.points = accounts'[h].points
                 /\ accounts'[h] = [accounts[h] EXCEPT !.points = accounts'[h].points]
                 /\ accounts'[h].lastCostAppliedAt = accounts[h].lastCostAppliedAt
                 /\ accounts'[h].accessOn = accounts[h].accessOn
                 /\ accounts'[h].accessOffSince = accounts[h].accessOffSince
                 /\ accounts'[h].lastCheckInAt = accounts[h].lastCheckInAt
                 /\ users' = users ]_vars

\* a subtraction left at 0 an access-ON ledger that had checked in and had a
\* day of cost due, and left the cost due
C25_Witness ==
    \E h \in Handles :
        /\ resp.op = "adminPoints"
        /\ resp.h = h
        /\ resp.status = "ok"
        /\ resp.action = "subtract"
        /\ base[h].points = 0
        /\ accounts[h].points = 0
        /\ accounts[h].accessOn
        /\ accounts[h].lastCheckInAt # NULL
        /\ accounts[h].lastCostAppliedAt < todayMidnight(now)

\* the stored state: ledgers, identity records, codes and the configuration
stored == <<accounts, users, disabled, codes, invites, registrationEnabled>>

\* C26: a request rejected with a validation or not-found error leaves the
\* stored state as it was.  A redeem request without a code or for a code that
\* is not stored is rejected and neither creates the caller's ledger nor
\* applies its daily costs; an adjustment with an unknown action, a negative
\* amount or for a handle without a ledger is rejected; a toggle without a
\* boolean is rejected; and so is a batch creation with a count or an expiry
\* out of range.
C26_RejectedChangesNothing ==
    [][ /\ (resp'.op = "redeem" /\ ~HoldsCode(resp'.key))
           => /\ resp'.status = IF resp'.key = "" THEN "bad_request" ELSE "not_found"
              /\ stored' = stored
        /\ ( /\ resp'.op = "adminPoints"
             /\ \/ resp'.action \notin {"add", "subtract", "set"}
                \/ resp'.amount < 0
                \/ ~Has(resp'.h) )
           => /\ resp'.status \in {"bad_action", "bad_amount", "not_found"}
              /\ stored' = stored
        /\ resp'.op = "toggleRejected"
           => /\ resp'.status = "bad_request"
              /\ stored' = stored
        /\ ( /\ resp'.op = "adminCreateRedeem"
             /\ (resp'.count < 1 \/ resp'.count > 100) )
           => /\ resp'.status \in {"bad_count", "bad_points"}
              /\ stored' = stored
        /\ ( /\ resp'.op = "adminCreateInvite"
             /\ \/ resp'.count < 1
                \/ resp'.count > 200
                \/ resp'.expiresInDays # NULL
                   /\ (resp'.expiresInDays < 1 \/ resp'.expiresInDays > 365) )
           => /\ resp'.status \in {"bad_count", "bad_expiry"}
              /\ stored' = stored ]_vars

\* a redeem request without a code was rejected by a handle that has no
\* ledger, a code being stored
C26_Witness ==
    \E h \in Handles :
        /\ resp.op = "redeem"
        /\ resp.h = h
        /\ resp.key = ""
        /\ resp.status = "bad_request"
        /\ ~Has(h)
        /\ \E k \in CodeKeys : codes[k] # NoCode

\* an adjustment by a negative amount was rejected for a ledger with a
\* balance and days of cost due
C26_WitnessAdjust ==
    \E h \in Handles :
        /\ resp.op = "adminPoints"
        /\ resp.h = h
        /\ resp.amount < 0
        /\ resp.status = "bad_amount"
        /\ Has(h)
        /\ accounts[h].points > 0
        /\ accounts[h].accessOn
        /\ accounts[h].lastCostAppliedAt < todayMidnight(now)

\* h's stored ledger is up for purge at the next request
UpForPurge(h) ==
    /\ Has(h)
    /\ ~accounts[h].accessOn
    /\ accounts[h].accessOffSince # NULL
    /\ now - accounts[h].accessOffSince >= PURGE_DAYS * MS_PER_DAY

\* C27: whether the removals of a purge fail or not, the request that
\* triggered the purge completes with its normal response and the ledger is
\* stored reset (points 0, or 5 after a check-in; accessOn false;
\* accessOffSince and lastCostAppliedAt today's midnight); the identity record
\* is removed or, the removal having failed, left; and a purge for a handle
\* whose identity record is already absent changes no identity record.
C27_PurgeFailureSwallowed ==
    [][ \A h \in Handles :
          ( /\ resp'.op \in {"status", "checkin", "toggle", "access"}
            /\ resp'.h = h
            /\ UpForPurge(h) )
          => /\ resp'.status # "error"
             /\ resp'.op = "status" =>
                   /\ resp' = buildStatus(accounts, h, now).resp
                   /\ resp'.purged
                   /\ resp'.points = 0
             /\ resp'.op = "access" => resp'.reason = "OFF"
             /\ resp'.op = "toggle" => (~resp'.accessOn /\ resp'.points = 0)
             /\ accounts'[h].points =
                   IF resp'.op = "checkin" /\ resp'.status = "ok" THEN Pts(5) ELSE 0
             /\ accounts'[h].accessOn = FALSE
             /\ accounts'[h].accessOffSince = todayMidnight(now)
             /\ accounts'[h].lastCostAppliedAt = todayMidnight(now)
             /\ users' \in {users, users \ {h}}
             /\ h \notin users => users' = users ]_vars

\* a status check purged, the removal of the identity record failed, and the
\* ledger is reset all the same
C27_Witness ==
    \E h \in Handles :
        /\ faulty
        /\ resp.op = "status"
        /\ resp.h = h
        /\ resp.status = "ok"
        /\ resp.purged
        /\ h \in users
        /\ base[h].points > 0
        /\ accounts[h].points = 0
        /\ accounts[h].accessOffSince = todayMidnight(now)

\* the request in slot r has been answered, with success
Succeeded(r) == inflight[r].pc = "done" /\ inflight[r].resp.status = "ok"

\* C28: the redeem handler has a race.  Of two redeem requests for the same
\* code, both succeed if and only if each read the code before the other
\* wrote used = true; and when they do, each response adds the code's points:
\* requests of two handles leave both ledgers credited, each with the balance
\* its request found plus the code's points, and requests of one handle get
\* two success responses, the ledger holding the balance of one of them.
C28_RedeemRace ==
    \A r1 \in Requests, r2 \in Requests :
        ( /\ r1 # r2
          /\ inflight[r1].pc = "done"
          /\ inflight[r2].pc = "done"
          /\ inflight[r1].key = inflight[r2].key )
        => LET q1 == inflight[r1]
               q2 == inflight[r2]
               both == Succeeded(r1) /\ Succeeded(r2)
           IN  /\ both <=> (q1.overlapped /\ q2.overlapped)
               /\ both =>
                     /\ q1.resp.addedPoints = codes[q1.key].points
                     /\ q2.resp.addedPoints = codes[q1.key].points
                     /\ q1.resp.points = RoundHalf(q1.state.points + codes[q1.key].points)
                     /\ q2.resp.points = RoundHalf(q2.state.points + codes[q1.key].points)
                     /\ IF q1.h # q2.h
                        THEN /\ accounts[q1.h].points = q1.resp.points
                             /\ accounts[q2.h].points = q2.resp.points
                        ELSE accounts[q1.h].points \in {q1.resp.points, q2.resp.points}

\* two handles redeemed the same code at once, one in each letter case, and
\* each holds its first 20 points and the code's
C28_Witness ==
    /\ Succeeded(1)
    /\ Succeeded(2)
    /\ inflight[1].h = "a"
    /\ inflight[2].h = "b"
    /\ inflight[1].key = inflight[2].key
    /\ inflight[1].overlapped
    /\ HoldsCode(inflight[1].key)
    /\ accounts["a"].points = RoundHalf(Pts(INITIAL_POINTS) + codes[inflight[1].key].points)
    /\ accounts["b"].points = accounts["a"].points

\* C29: in every reachable state, the clock never going back, every stored
\* ledger's lastCostAppliedAt is at most the midnight that began today.
C29_CostStampNotAhead ==
    \A h \in Handles :
        Has(h) => accounts[h].lastCostAppliedAt <= todayMidnight(now)

\* thirty days of cost were charged mid-day and the stamp stands at today's
\* midnight, behind the clock
C29_Witness ==
    \E h \in Handles :
        /\ resp.op = "status"
        /\ resp.h = h
        /\ accounts[h].accessOn
        /\ base[h].mid = MS_PER_DAY
        /\ accounts[h].lastCostAppliedAt = todayMidnight(now)
        /\ accounts[h].lastCostAppliedAt > base[h].mid
        /\ accounts[h].lastCostAppliedAt < now

\* the default ledger of h, created on the day of instant t
FreshLedger(h, t) ==
    [ handle            |-> h,
      points            |-> Pts(20),
      accessOn          |-> TRUE,
      lastCostAppliedAt |-> t - (t % MS_PER_DAY),
      lastCheckInDate   |-> NULL,
      lastCheckInAt     |-> NULL,
      accessOffSince    |-> NULL ]

\* C30: the first ledger access of a handle without a stored record creates
\* and stores 20 points, access ON, lastCostAppliedAt at the boundary of the
\* day of creation, and no lastCheckInAt or accessOffSince (a status check
\* or an access check leaves exactly that stored; a check-in or a toggle
\* works from it); an access of a handle with a stored record works from that
\* record and does not initialize it again: a status check or an access
\* check leaves its check-in stamp and accessOn as they were, and its balance
\* and cost stamp as they were or as the daily costs moved them.
C30_LazyInit ==
    [][ \A h \in Handles :
          (resp'.op \in {"status", "checkin", "toggle", "access"} /\ resp'.h = h)
          => IF ~Has(h)
             THEN /\ resp'.op \in {"status", "access"} =>
                        accounts'[h] = FreshLedger(h, now)
                  /\ resp'.op = "status" =>
                        (resp'.points = Pts(20) /\ resp'.accessOn /\ ~resp'.purged)
                  /\ resp'.op = "checkin" =>
                        /\ resp'.status = "ok"
                        /\ accounts'[h] =
                              [FreshLedger(h, now) EXCEPT
                                  !.points = Pts(25),
                                  !.lastCheckInAt = now,
                                  !.lastCheckInDate = toDateString(now)]
                  /\ resp'.op = "toggle" =>
                        accounts'[h] =
                            IF resp'.desired
                            THEN FreshLedger(h, now)
                            ELSE [FreshLedger(h, now) EXCEPT
                                     !.accessOn = FALSE, !.accessOffSince = now]
             ELSE resp'.op \in {"status", "access"} =>
                     /\ accounts'[h].lastCheckInAt = accounts[h].lastCheckInAt
                     /\ accounts'[h].accessOn = accounts[h].accessOn
                     /\ accounts'[h].points <= accounts[h].points
                     /\ accounts'[h].lastCostAppliedAt >= accounts[h].lastCostAppliedAt
                     /\ accounts[h].accessOffSince = NULL =>
                           accounts'[h].accessOffSince = NULL
                     /\ ~UpForPurge(h) =>
                           accounts'[h].accessOffSince = accounts[h].accessOffSince ]_vars

\* a status check in the middle of the thirty-first day was answered from a
\* ledger created by it, stamped with that day's midnight
C30_Witness ==
    \E h \in Handles :
        /\ resp.op = "status"
        /\ resp.h = h
        /\ accounts[h] = FreshLedger(h, now)
        /\ base[h].mid = todayMidnight(now)
        /\ base[h].points = Pts(INITIAL_POINTS)
        /\ base[h].lastOk = NULL
        /\ now > PURGE_DAYS * MS_PER_DAY
        /\ now > todayMidnight(now)

C32_GatedCreation ==
    [][ /\ users' # users =>
              /\ resp'.op \in {"register", "oauth"}
              /\ resp'.h \notin users
              /\ users' = users \cup {resp'.h}
        /\ (resp'.op = "register" /\ resp'.status # "bad_request")
           => LET ok == GoodThroughDeadline(InviteOf(resp'.key), now)
              IN  /\ resp'.h \in users' \ users => ok
                  /\ (ok /\ resp'.h \notin users) => resp'.h \in users'
        /\ (resp'.op = "oauth" /\ resp'.h \notin users)
           => LET ok == GoodThroughDeadline(InviteOf(resp'.key), now)
              IN  IF registrationEnabled \/ ok
                  THEN resp'.h \in users' /\ resp'.status = "created"
                  ELSE /\ resp'.status = "REGISTRATION_DISABLED"
                       /\ users' = users
                       /\ invites' = invites
        /\ (resp'.op = "oauth" /\ resp'.h \in users)
           => (invites' = invites /\ users' = users) ]_vars

\* with registration switched off, a password registration succeeded on an
\* invite code
C32_Witness ==
    /\ resp.op = "register"
    /\ resp.status = "ok"
    /\ ~registrationEnabled
    /\ resp.h \in users
    /\ invites[resp.key].usedBy = resp.h

\* an existing identity logged in with a code that is still good
C32_WitnessLogin ==
    /\ resp.op = "oauth"
    /\ resp.status = "ok"
    /\ resp.key \in InviteKeys
    /\ GoodThroughDeadline(invites[resp.key], now)

\* a first OAuth login was refused: registration off and the code used
C32_WitnessRefused ==
    /\ resp.op = "oauth"
    /\ resp.status = "REGISTRATION_DISABLED"
    /\ resp.key \in InviteKeys
    /\ invites[resp.key] # NoCode
    /\ invites[resp.key].used

\* C33 as claimed: in every reachable state, a ledger credited by a redeem
\* request for a code implies that the stored code has used = true and
\* usedBy = the credited handle, the credit being the code's points on top
\* of the balance the daily costs (and the purge reset) left.
C33_Original ==
    \A r \in Requests :
        Succeeded(r)
        => LET q == inflight[r]
           IN  /\ HoldsCode(q.key)
               /\ codes[q.key].used
               /\ codes[q.key].usedBy = q.h
               /\ q.resp.points = RoundHalf(q.state.points + q.resp.addedPoints)

\* the order of the two writes alone: a request that has reached the ledger
\* has stored the code as used, by some handle
C33_MarkedBeforeCredit ==
    \A r \in Requests :
        inflight[r].pc \in {"readLedger", "initLedger", "applyCosts", "writeLedger"}
        => (HoldsCode(inflight[r].key) /\ codes[inflight[r].key].used)

\* the handles the registration form's inputs come to when they are
\* acceptable: Bob and bob! give bob, "Jo  e" gives jo-e, !! gives the random
\* handle
NormalizedHandles == {"bob", "jo-e", "user-0a1b2c"}

\* C34: a password registration succeeds iff the invite code it presents is
\* stored, unused and not expired and its final handle is acceptable (three
\* characters at least, not blacklisted, no reserved word in it) and free.
\* One that is rejected creates no identity and leaves every invite code as
\* it was; one that succeeds creates exactly one identity, the final
\* normalized handle, and marks the presented code, and no other, used with
\* usedBy = that handle.
C34_RegisterAllOrNothing ==
    [][ resp'.op = "register"
        => LET k == resp'.key
               h == resp'.h
           IN  /\ resp'.status = "ok"
                    <=> /\ GoodThroughDeadline(InviteOf(k), now)
                        /\ h \in NormalizedHandles
                        /\ h \notin users
               /\ IF resp'.status = "ok"
                  THEN /\ users' = users \cup {h}
                       /\ Cardinality(users') = Cardinality(users) + 1
                       /\ invites' = [invites EXCEPT ![k] =
                                         [@ EXCEPT !.used = TRUE, !.usedBy = h,
                                                   !.usedAt = now]]
                  ELSE users' = users /\ invites' = invites ]_vars

\* "Jo  e" registered as jo-e on the second code, typed in small letters,
\* while the first code is stored and stays unused
C34_Witness ==
    /\ resp.op = "register"
    /\ resp.status = "ok"
    /\ resp.h = "jo-e"
    /\ resp.key = "I2"
    /\ invites["I2"].usedBy = "jo-e"
    /\ invites["I1"] # NoCode
    /\ ~invites["I1"].used
    /\ "jo-e" \in users

\* the rejections, each with a code that is good
C34_RejectedWithGoodCode(status) ==
    /\ resp.op = "register"
    /\ resp.status = status
    /\ GoodThroughDeadline(InviteOf(resp.key), now)

C34_WitnessOccupied == C34_RejectedWithGoodCode("occupied")
C34_WitnessTooShort == C34_RejectedWithGoodCode("too_short")
C34_WitnessBlacklisted == C34_RejectedWithGoodCode("blacklisted")
C34_WitnessReserved == C34_RejectedWithGoodCode("reserved")
C34_WitnessUsed == resp.op = "register" /\ resp.status = "used"
C34_WitnessExpired == resp.op = "register" /\ resp.status = "expired"
C34_WitnessRandom == resp.op = "register" /\ resp.status = "ok" /\ resp.h = "user-0a1b2c"

\* the request in slot r created an identity on the strength of its code
AdmittedByCode(r) ==
    /\ inflight[r].pc = "done"
    /\ \/ inflight[r].resp.op = "register" /\ inflight[r].resp.status = "ok"
       \/ /\ inflight[r].resp.op = "oauth"
          /\ inflight[r].resp.status = "created"
          /\ inflight[r].hasValidInviteCode

\* C35 as claimed: whatever the interleaving of two registration requests
\* that present the same invite code with different handles (two password
\* registrations, or a password registration and a first OAuth login), only
\* one of them succeeds.
C35_Original ==
    \A r1 \in Requests, r2 \in Requests :
        ( /\ r1 # r2
          /\ inflight[r1].key = inflight[r2].key
          /\ inflight[r1].h # inflight[r2].h )
        => ~(AdmittedByCode(r1) /\ AdmittedByCode(r2))

\* C35 as claimed, the code's side: an invite code stored as used is never
\* written again.
C35_OriginalUsedOnce ==
    [][ \A k \in InviteKeys :
          (invites[k] # NoCode /\ invites[k].used) => invites'[k] = invites[k] ]_vars

\* C36 as claimed: with one request of a ledger's owner under way at a time,
\* a leaderboard request of another user or an adjustment by the
\* administrator never overwrites the owner's update.  Once the owner's
\* redeem has answered with a balance and the other request, begun on the
\* same day, has answered too, the stored ledger still holds the redeemed
\* points: the very balance of the owner's response beside a leaderboard
\* request, which changes no balance, and no less than it beside an
\* administrator's add.
C36_Original ==
    LET own == inflight[OwnerRequest]
        other == inflight[OtherRequest]
    IN  ( /\ Succeeded(OwnerRequest)
          /\ other.pc = "done"
          /\ other.h = own.h
          /\ own.state.lastCostAppliedAt = todayMidnight(now)
          /\ other.state # NoState => other.state.lastCostAppliedAt = todayMidnight(now) )
        => /\ other.resp.op = "leaderboard"
              => accounts[own.h].points = own.resp.points
           /\ (other.resp.op = "adminPoints" /\ other.action = "add")
              => accounts[own.h].points >= own.resp.points

\* C37: a purge is executed for a handle only when its access has been OFF
\* without interruption for 30 days or more, counted from the instant it was
\* last turned OFF (turning it ON and OFF again starts the count anew): the
\* request that removes the identity finds the ledger with accessOn = false
\* and leaves it so, and no ledger with accessOn = true is purged.
C37_PurgeOnlyAfterThirtyDaysOff ==
    [][ \A h \in Handles :
          (h \in users /\ h \notin users')
          => /\ ~accounts[h].accessOn
             /\ ~accounts'[h].accessOn
             /\ base[h].offAt # NULL
             /\ now - base[h].offAt >= PURGE_DAYS * MS_PER_DAY ]_vars

\* a ledger turned OFF in the middle of the first day, after the start, was
\* purged in the middle of the thirty-first
C37_Witness ==
    \E h \in Handles :
        /\ h \notin users
        /\ ~accounts[h].accessOn
        /\ accounts[h].accessOffSince = todayMidnight(now)
        /\ base[h].offAt > MS_PER_DAY
        /\ now - base[h].offAt >= PURGE_DAYS * MS_PER_DAY
        /\ now > todayMidnight(now)

\* a ledger turned OFF, ON and OFF again on the first two days stands
\* unpurged more than 30 days after it was first turned OFF, and less than
\* 30 days after it was last turned OFF
C37_WitnessRestart ==
    \E h \in Handles :
        /\ resp.op = "status"
        /\ resp.h = h
        /\ h \in users
        /\ ~accounts[h].accessOn
        /\ accounts[h].accessOffSince = base[h].offAt
        /\ base[h].offAt = MS_PER_DAY + FineTicks
        /\ base[h].points = Pts(INITIAL_POINTS - ACTIVATION_FEE)
        /\ now - MS_PER_DAY >= PURGE_DAYS * MS_PER_DAY
        /\ now - base[h].offAt < PURGE_DAYS * MS_PER_DAY

\* the requests of a ledger's owner, each of which loads the ledger through
\* applyDailyCosts
CostApplying == {"status", "checkin", "toggle", "access", "redeem"}

\* h's ledger has been purged and has been OFF ever since
OffSincePurge(h) ==
    /\ Has(h)
    /\ base[h].purgedAt # NULL
    /\ ~accounts[h].accessOn
    /\ base[h].offAt # NULL
    /\ base[h].offAt < base[h].purgedAt

\* C38: after a purge the countdown runs from the midnight of the day of the
\* purge.  For a ledger that has stayed OFF since, a request of its owner
\* does not purge again while now - todayMidnight(purge instant) < 30 days
\* and leaves accessOffSince at that midnight (or cleared, by a toggle ON);
\* the first one at or after that point purges again: the balance, whatever
\* check-ins, redeemed codes and the administrator added to it in between,
\* is reset to 0 before the request's own credit, and accessOffSince moves to
\* today's midnight.
C38_PurgedAgain ==
    [][ \A h \in Handles :
          (OffSincePurge(h) /\ resp'.op \in CostApplying /\ resp'.h = h
             /\ (resp'.op = "redeem" => resp'.status \in {"ok"}))
          => LET start == todayMidnight(base[h].purgedAt)
                 due == now - start >= PURGE_DAYS * MS_PER_DAY
             IN  /\ accounts[h].accessOffSince = start
                 /\ IF due
                    THEN /\ base'[h].purgedAt = now
                         /\ accounts'[h].accessOffSince = todayMidnight(now)
                         /\ ~accounts'[h].accessOn
                         /\ accounts'[h].points =
                               CASE resp'.op = "checkin" /\ resp'.status = "ok"
                                      -> Pts(CHECKIN_POINTS)
                                 [] resp'.op = "redeem"
                                      -> RoundHalf(resp'.addedPoints)
                                 [] OTHER -> 0
                         /\ resp'.op = "status" => (resp'.points = 0 /\ resp'.purged)
                    ELSE /\ base'[h].purgedAt = base[h].purgedAt
                         /\ accounts'[h].points >= accounts[h].points - Pts(ACTIVATION_FEE)
                         /\ \/ accounts'[h].accessOffSince = start
                            \/ accounts'[h].accessOn ]_vars

\* turned OFF in the middle of the first day and so purged in the middle of
\* the thirty-first, the ledger stayed OFF, was credited a check-in that
\* day, and was purged again by the first status check 30 days after that
\* day's midnight, less than 30 days after the purge itself, which reset the
\* balance to 0
C38_Witness ==
    \E h \in Handles :
        /\ resp.op = "status"
        /\ resp.h = h
        /\ resp.purged
        /\ base[h].purgedAt = now
        /\ base[h].offAt = MS_PER_DAY + 1
        /\ base[h].lastOk > PURGE_DAYS * MS_PER_DAY
        /\ base[h].lastOk - base[h].offAt >= PURGE_DAYS * MS_PER_DAY
        /\ base[h].points > 0
        /\ accounts[h].points = 0
        /\ now - todayMidnight(base[h].lastOk) = PURGE_DAYS * MS_PER_DAY

\* a day before, the ledger stood unpurged with the balance gained
C38_WitnessNotYet ==
    \E h \in Handles :
        /\ resp.op = "status"
        /\ resp.h = h
        /\ ~resp.purged
        /\ OffSincePurge(h)
        /\ now - todayMidnight(base[h].purgedAt) = PURGE_DAYS * MS_PER_DAY - 1
        /\ accounts[h].points > 0

C40_OffDaysBounded ==
    \A h \in Handles :
        (resp.op = "status" /\ resp.h = h)
        => /\ 0 <= resp.offDays
           /\ resp.offDays <= PURGE_DAYS
           /\ (accounts[h].accessOn \/ accounts[h].accessOffSince = NULL)
                 => resp.offDays = 0
           /\ (~accounts[h].accessOn /\ accounts[h].accessOffSince # NULL)
                 => /\ resp.offDays * MS_PER_DAY
                         = todayMidnight(now) - todayMidnight(accounts[h].accessOffSince)
                    /\ now - accounts[h].accessOffSince < PURGE_DAYS * MS_PER_DAY

\* a ledger turned OFF in the middle of a day reports offDays = 30 on the
\* thirtieth day after, less than 30 times 24 hours later, unpurged
C40_Witness ==
    \E h \in Handles :
        /\ resp.op = "status"
        /\ resp.h = h
        /\ resp.offDays = PURGE_DAYS
        /\ ~resp.purged
        /\ h \in users

\* a ledger OFF for more than 31 days, purged on the way, reports the days
\* since the purge
C40_WitnessAfterPurge ==
    \E h \in Handles :
        /\ resp.op = "status"
        /\ resp.h = h
        /\ resp.offDays = PURGE_DAYS - 1
        /\ base[h].purgedAt # NULL
        /\ now - base[h].offAt > (PURGE_DAYS + 1) * MS_PER_DAY

====
